---------------------------- MODULE Spec2Model ----------------------------
(***************************************************************************)
(* Relic: a content-addressable version control engine.                    *)
(*                                                                         *)
(* Byte buffers and JavaScript strings are sequences of integers: a byte   *)
(* 0..255, a character (its code point), or a digest unit.  A SHA-256      *)
(* digest is DigestUnits units wide, in hex and in binary form alike; hex  *)
(* units lie from HexBase up and binary units from HexBase + BinShift up,  *)
(* so that no unit is a byte or a character of a text.                     *)
(***************************************************************************)
EXTENDS Integers, Sequences, FiniteSets, TLC

VARIABLES
    objects,   \* .relic/objects: digest -> [data: deflated bytes, writes: times the file was written]
    index,     \* .relic/index entries: path -> [hash, mode]
    refs,      \* .relic/refs/heads: branch file name -> file bytes
    HEAD,      \* .relic/HEAD file bytes
    work,      \* working tree: path -> file bytes
    result     \* what the last command reported

vars == <<objects, index, refs, HEAD, work, result>>

----------------------------------------------------------------------------
(* Bounds of the model *)

MaxLen == 2        \* longest content of the object store round trip
MaxObjects == 2    \* objects the store round trip writes
MaxCommits == 2    \* commit objects a repository grown from init may hold
MaxMerged == 5     \* commit objects a repository with diverged branches may hold

----------------------------------------------------------------------------
(* String literals of the source, as bytes *)

NUL == 0
SP == 32
LF == 10
SLASH == 47

S_blob == <<98, 108, 111, 98>>                            \* "blob"
S_tree == <<116, 114, 101, 101>>                          \* "tree"
S_commit == <<99, 111, 109, 109, 105, 116>>               \* "commit"
S_treeSp == <<116, 114, 101, 101, 32>>                    \* "tree "
S_parentSp == <<112, 97, 114, 101, 110, 116, 32>>         \* "parent "
S_authorSp == <<97, 117, 116, 104, 111, 114, 32>>         \* "author "
S_committerSp == <<99, 111, 109, 109, 105, 116, 116, 101, 114, 32>>  \* "committer "
S_refColon == <<114, 101, 102, 58, 32>>                   \* "ref: "
S_refsHeads == <<114, 101, 102, 115, 47, 104, 101, 97, 100, 115, 47>>  \* "refs/heads/"
S_oursMarker == <<60, 60, 60, 60, 60, 60, 60, 32, 72, 69, 65, 68, 10>>  \* "<<<<<<< HEAD\n"
S_sepMarker == <<61, 61, 61, 61, 61, 61, 61, 10>>         \* "=======\n"
S_theirsMarker == <<62, 62, 62, 62, 62, 62, 62, 32>>      \* ">>>>>>> "
S_mergeBranch == <<77, 101, 114, 103, 101, 32, 98, 114, 97, 110, 99, 104, 32, 39>>  \* "Merge branch '"
S_quote == <<39>>                                         \* "'"
S_replacement == <<239, 191, 189>>                        \* U+FFFD encoded in UTF-8
S_files == <<95, 95, 102, 105, 108, 101, 115, 95, 95>>    \* "__files__"

FILE_MODE == <<49, 48, 48, 54, 52, 52>>                   \* '100644'
EXEC_MODE == <<49, 48, 48, 55, 53, 53>>                   \* '100755'
DIR_MODE == <<48, 52, 48, 48, 48, 48>>                    \* '040000'
DEFAULT_BRANCH == <<109, 97, 105, 110>>                   \* 'main'
AUTHOR == <<75, 101, 115, 104, 97, 118, 65, 106, 97, 103, 97, 111, 110, 107, 97, 114,
            32, 60, 107, 101, 115, 104, 97, 118, 118, 97, 109, 97, 110, 97, 106, 97,
            103, 97, 111, 110, 107, 97, 114, 64, 103, 109, 97, 105, 108, 46, 99, 111,
            109, 62>>            \* 'KeshavAjagaonkar <keshavvamanajagaonkar@gmail.com>'

----------------------------------------------------------------------------
(* Buffer and string primitives *)

NoMap == [x \in {} |-> {}]

\* buf.indexOf(b, from): the first position >= from (1-based) holding b, 0 when none.
\* The scan goes sixteen positions at a time.
RECURSIVE IndexOf(_, _, _)
IndexOf(buf, b, from) ==
    IF from > Len(buf) THEN 0
    ELSE LET last == IF from + 15 < Len(buf) THEN from + 15 ELSE Len(buf)
             hits == {i \in from..last : buf[i] = b}
         IN IF hits # {} THEN CHOOSE i \in hits : \A j \in hits : i <= j
            ELSE IndexOf(buf, b, last + 1)

StartsWith(s, prefix) ==
    /\ Len(s) >= Len(prefix)
    /\ SubSeq(s, 1, Len(prefix)) = prefix

Slice(s, from) == SubSeq(s, from, Len(s))

\* s.split(sep) for a one-byte separator
RECURSIVE Split(_, _)
Split(s, sep) ==
    LET i == IndexOf(s, sep, 1) IN
    IF i = 0 THEN <<s>>
    ELSE <<SubSeq(s, 1, i - 1)>> \o Split(Slice(s, i + 1), sep)

\* parts.join(sep)
RECURSIVE Join(_, _)
Join(parts, sep) ==
    IF Len(parts) = 0 THEN <<>>
    ELSE IF Len(parts) = 1 THEN parts[1]
    ELSE parts[1] \o <<sep>> \o Join(Tail(parts), sep)

IsSpace(e) == e \in {9, 10, 11, 12, 13, 32}

\* s.trim()
RECURSIVE TrimStart(_)
TrimStart(s) ==
    IF Len(s) > 0 /\ IsSpace(s[1]) THEN TrimStart(Tail(s)) ELSE s

RECURSIVE TrimEnd(_)
TrimEnd(s) ==
    IF Len(s) > 0 /\ IsSpace(s[Len(s)]) THEN TrimEnd(SubSeq(s, 1, Len(s) - 1)) ELSE s

Trim(s) == TrimEnd(TrimStart(s))

\* String(n) for n >= 0
RECURSIVE Decimal(_)
Decimal(n) ==
    IF n < 10 THEN <<48 + n>> ELSE Decimal(n \div 10) \o <<48 + (n % 10)>>

IsDigit(e) == e \in 48..57

\* parseInt(s, 10); NaN is -1.  undefined (a missing field) is the string "undefined"
RECURSIVE ParseDigits(_, _)
ParseDigits(s, acc) ==
    IF Len(s) > 0 /\ IsDigit(s[1]) THEN ParseDigits(Tail(s), 10 * acc + (s[1] - 48))
    ELSE acc

ParseInt(s) ==
    LET t == TrimStart(s) IN
    IF Len(t) > 0 /\ IsDigit(t[1]) THEN ParseDigits(t, 0) ELSE -1

\* buf.toString(): UTF-8 decoding; a byte that is no valid UTF-8 decodes to U+FFFD.
\* The model's contents use ASCII bytes and the lone byte 0xFF.
REPLACEMENT_CHAR == 65533

\* the characters decoded from buf[lo..hi]
RECURSIVE Utf8DecodeRange(_, _, _)
Utf8DecodeRange(buf, lo, hi) ==
    IF lo > hi THEN <<>>
    ELSE IF lo = hi
    THEN LET starts(i) == i >= 1 /\ i + 2 <= Len(buf) /\ SubSeq(buf, i, i + 2) = S_replacement IN
         IF starts(lo - 1) \/ starts(lo - 2) THEN <<>>
         ELSE IF buf[lo] >= 128 /\ buf[lo] <= 255 THEN <<REPLACEMENT_CHAR>>
         ELSE <<buf[lo]>>
    ELSE LET mid == (lo + hi) \div 2 IN
         Utf8DecodeRange(buf, lo, mid) \o Utf8DecodeRange(buf, mid + 1, hi)

\* buf.toString(): a byte that starts no UTF-8 sequence decodes to U+FFFD
Utf8Decode(buf) ==
    IF \A i \in DOMAIN buf : buf[i] < 128 \/ buf[i] > 255 THEN buf
    ELSE Utf8DecodeRange(buf, 1, Len(buf))

RECURSIVE Utf8EncodeRange(_, _, _)
Utf8EncodeRange(str, lo, hi) ==
    IF lo > hi THEN <<>>
    ELSE IF lo = hi
    THEN IF str[lo] = REPLACEMENT_CHAR THEN S_replacement ELSE <<str[lo]>>
    ELSE LET mid == (lo + hi) \div 2 IN
         Utf8EncodeRange(str, lo, mid) \o Utf8EncodeRange(str, mid + 1, hi)

\* Buffer.from(string): UTF-8 encoding
Utf8Encode(str) ==
    IF \A i \in 1..Len(str) : str[i] # REPLACEMENT_CHAR THEN str
    ELSE Utf8EncodeRange(str, 1, Len(str))

----------------------------------------------------------------------------
(* hash.js *)

DigestUnits == 2
HexBase == 100000
BinShift == 2000000
HashPrime1 == 46337
HashPrime2 == 46327
HashMul1 == 257
HashMul2 == 263

\* [h, pw]: the polynomial hash of buf[lo..hi] and mul^(hi - lo + 1), modulo prime
RECURSIVE PolyRange(_, _, _, _, _)
PolyRange(buf, lo, hi, mul, prime) ==
    IF lo > hi THEN [h |-> 0, pw |-> 1]
    ELSE IF lo = hi THEN [h |-> (buf[lo] + 1) % prime, pw |-> mul % prime]
    ELSE LET mid == (lo + hi) \div 2
             l == PolyRange(buf, lo, mid, mul, prime)
             r == PolyRange(buf, mid + 1, hi, mul, prime)
         IN [h |-> (l.h * r.pw + r.h) % prime, pw |-> (l.pw * r.pw) % prime]

PolyHash(buf, from, acc, mul, prime) ==
    LET r == PolyRange(buf, from, Len(buf), mul, prime) IN (acc * r.pw + r.h) % prime

\* createHash('sha256').update(store).digest('hex')
Sha256Hex(store) ==
    << HexBase + PolyHash(store, 1, 7, HashMul1, HashPrime1),
       HexBase + PolyHash(store, 1, 11, HashMul2, HashPrime2) >>

\* Buffer.from(hex, 'hex')
HexToBin(hex) == [i \in 1..Len(hex) |-> hex[i] + BinShift]

\* buf.toString('hex')
BinToHex(bin) == [i \in 1..Len(bin) |-> bin[i] - BinShift]

\* The mutant frames with a size that counts the objects already stored.
hashObject_counting(content, type) ==
    LET header == type \o <<SP>> \o Decimal(Len(content) + Cardinality(DOMAIN objects)) \o <<NUL>>
        store == header \o content
    IN [hash |-> Sha256Hex(store), store |-> store]

\* The mutant leaves the type out of the header.
hashObject_untyped(content, type) ==
    LET header == Decimal(Len(content)) \o <<NUL>>
        store == header \o content
    IN [hash |-> Sha256Hex(store), store |-> store]

hashObject(content, type) ==
    LET header == type \o <<SP>> \o Decimal(Len(content)) \o <<NUL>>
        store == header \o content
    IN [hash |-> Sha256Hex(store), store |-> store]

----------------------------------------------------------------------------
(* compress.js: a zlib stream is the two header bytes, the deflate body and  *)
(* the Adler-32 of the data; inflate rejects a stream whose header or        *)
(* checksum is wrong.  The deflate body is kept as the data itself and the   *)
(* checksum as one unit.                                                     *)

ZLIB_HEADER == <<120, 156>>
AdlerPrime == 65521

\* buf[i], 0 past `hi`
ByteAt(buf, i, hi) == IF i <= hi THEN buf[i] ELSE 0

\* the sum of buf[lo..hi] modulo AdlerPrime, eight bytes to a leaf
RECURSIVE ByteSum(_, _, _)
ByteSum(buf, lo, hi) ==
    IF lo > hi THEN 0
    ELSE IF hi - lo < 8
    THEN (buf[lo] + ByteAt(buf, lo + 1, hi) + ByteAt(buf, lo + 2, hi) + ByteAt(buf, lo + 3, hi)
          + ByteAt(buf, lo + 4, hi) + ByteAt(buf, lo + 5, hi) + ByteAt(buf, lo + 6, hi)
          + ByteAt(buf, lo + 7, hi)) % AdlerPrime
    ELSE (ByteSum(buf, lo, (lo + hi) \div 2) + ByteSum(buf, (lo + hi) \div 2 + 1, hi)) % AdlerPrime

Adler(buf) == (1 + ByteSum(buf, 1, Len(buf))) % AdlerPrime

compress(buffer) == ZLIB_HEADER \o buffer \o <<Adler(buffer)>>

\* inflateSync throws on a malformed stream
decompress(buffer) ==
    IF Len(buffer) >= 3 /\ SubSeq(buffer, 1, 2) = ZLIB_HEADER
    THEN LET data == SubSeq(buffer, 3, Len(buffer) - 1) IN
         IF buffer[Len(buffer)] = Adler(data)
         THEN [ok |-> TRUE, data |-> data]
         ELSE [ok |-> FALSE, data |-> <<>>]
    ELSE [ok |-> FALSE, data |-> <<>>]

----------------------------------------------------------------------------
(* objectStore.js *)

objectExists(hash, store) == hash \in DOMAIN store

\* The mutant unlinks a file that is already there.
writeObject_unlink(hash, storeBuffer, store) ==
    IF hash \in DOMAIN store THEN [h \in DOMAIN store \ {hash} |-> store[h]]
    ELSE [h \in DOMAIN store \cup {hash} |->
            IF h = hash THEN [data |-> compress(storeBuffer), writes |-> 1]
            ELSE store[h]]

\* The mutant rewrites a file that is already there.
writeObject_rewrite(hash, storeBuffer, store) ==
    [h \in DOMAIN store \cup {hash} |->
        IF h = hash
        THEN [data |-> compress(storeBuffer),
              writes |-> IF h \in DOMAIN store THEN store[h].writes + 1 ELSE 1]
        ELSE store[h]]

\* writeObject: the object store after the call
writeObject(hash, storeBuffer, store) ==
    IF hash \in DOMAIN store THEN store
    ELSE [h \in DOMAIN store \cup {hash} |->
            IF h = hash THEN [data |-> compress(storeBuffer), writes |-> 1]
            ELSE store[h]]

\* what a throwing call returns: err names the error
Thrown(err) == [ok |-> FALSE, err |-> err, type |-> <<>>, content |-> <<>>]

\* The mutant takes a size of 0 for a missing one.
checkSize_zeroIsMissing(fields, content) ==
    IF Len(fields) < 2 \/ ParseInt(fields[2]) = 0 \/ Len(content) # ParseInt(fields[2])
    THEN Thrown("ObjectCorrupted")
    ELSE [ok |-> TRUE, err |-> "", type |-> fields[1], content |-> content]

\* readObject from the header's fields on: content.length !== parseInt(sizeStr, 10)
checkSize(fields, content) ==
    IF Len(content) # (IF Len(fields) >= 2 THEN ParseInt(fields[2]) ELSE -1)
    THEN Thrown("ObjectCorrupted")
    ELSE [ok |-> TRUE, err |-> "", type |-> fields[1], content |-> content]

\* readObject from raw.indexOf(0x00) on
splitHeader(raw, nullIndex) ==
    IF nullIndex = 0 THEN Thrown("ObjectCorrupted")
    ELSE checkSize(Split(Utf8Decode(SubSeq(raw, 1, nullIndex - 1)), SP), Slice(raw, nullIndex + 1))

\* readObject from decompress(compressed) on
inflated(z) ==
    IF ~z.ok THEN Thrown("ZlibError") ELSE splitHeader(z.data, IndexOf(z.data, NUL, 1))

readObject(hash, store) ==
    IF hash \notin DOMAIN store THEN Thrown("NotFound")
    ELSE inflated(decompress(store[hash].data))

----------------------------------------------------------------------------
(* object.js *)

createBlob(content) == hashObject(content, S_blob)

\* String.prototype.localeCompare on names of ASCII letters, digits and
\* punctuation, as the default (root) collation orders them: by letter
\* regardless of case first, a lower-case letter before its upper-case one
\* at the first difference otherwise.  Negative, zero or positive.
IsUpper(c) == c \in 65..90
IsLower(c) == c \in 97..122

PrimaryWeight(c) ==
    IF IsUpper(c) THEN 1000 + 2 * (c - 65)
    ELSE IF IsLower(c) THEN 1000 + 2 * (c - 97)
    ELSE IF IsDigit(c) THEN 500 + c
    ELSE c

TertiaryWeight(c) == IF IsUpper(c) THEN 1 ELSE 0

RECURSIVE CompareBy(_, _, _, _)
CompareBy(a, b, i, level) ==
    IF i > Len(a) /\ i > Len(b) THEN 0
    ELSE IF i > Len(a) THEN -1
    ELSE IF i > Len(b) THEN 1
    ELSE LET wa == IF level = 1 THEN PrimaryWeight(a[i]) ELSE TertiaryWeight(a[i])
             wb == IF level = 1 THEN PrimaryWeight(b[i]) ELSE TertiaryWeight(b[i])
         IN IF wa < wb THEN -1
            ELSE IF wa > wb THEN 1
            ELSE CompareBy(a, b, i + 1, level)

localeCompare(a, b) ==
    LET primary == CompareBy(a, b, 1, 1) IN
    IF primary # 0 THEN primary ELSE CompareBy(a, b, 1, 3)

\* [...entries].sort((a, b) => a.name.localeCompare(b.name)): a stable sort
RECURSIVE InsertSorted(_, _)
InsertSorted(sorted, e) ==
    IF Len(sorted) = 0 THEN <<e>>
    ELSE IF localeCompare(e.name, sorted[Len(sorted)].name) >= 0 THEN Append(sorted, e)
    ELSE Append(InsertSorted(SubSeq(sorted, 1, Len(sorted) - 1), e), sorted[Len(sorted)])

RECURSIVE SortByName(_, _, _)
SortByName(entries, i, acc) ==
    IF i > Len(entries) THEN acc
    ELSE SortByName(entries, i + 1, InsertSorted(acc, entries[i]))

RECURSIVE ConcatEntries(_, _)
ConcatEntries(sorted, i) ==
    IF i > Len(sorted) THEN <<>>
    ELSE sorted[i].mode \o <<SP>> \o sorted[i].name \o <<NUL>> \o HexToBin(sorted[i].hash)
         \o ConcatEntries(sorted, i + 1)

\* entries: a sequence of [mode, name, hash]
createTree(entries) ==
    LET sorted == SortByName(entries, 1, <<>>)
        treeContent == ConcatEntries(sorted, 1)
    IN hashObject(treeContent, S_tree)

\* Buffer.prototype.indexOf(value, byteOffset), 0-based, -1 when absent; a negative
\* offset counts from the end
JsIndexOf(buf, value, offset) ==
    LET from == IF offset < 0 THEN (IF Len(buf) + offset < 0 THEN 0 ELSE Len(buf) + offset)
                ELSE offset
        at == IndexOf(buf, value, from + 1)
    IN at - 1

\* Buffer.prototype.slice(start, end), 0-based, end exclusive, negative from the end
JsSlice(buf, start, end) ==
    LET n == Len(buf)
        lo == IF start < 0 THEN (IF n + start < 0 THEN 0 ELSE n + start)
              ELSE IF start > n THEN n ELSE start
        hi == IF end < 0 THEN (IF n + end < 0 THEN 0 ELSE n + end)
              ELSE IF end > n THEN n ELSE end
    IN IF hi <= lo THEN <<>> ELSE SubSeq(buf, lo + 1, hi)

\* parseTree's loop; `fuel` iterations are followed, and a loop that has not ended
\* by then is reported in `ended`
RECURSIVE parseTreeFrom(_, _, _, _)
\* a loop that takes the digest from the null byte on
parseTreeFrom_hashFromNull(content, i, entries, fuel) ==
    IF ~(i < Len(content)) THEN [entries |-> entries, ended |-> TRUE]
    ELSE IF fuel = 0 THEN [entries |-> entries, ended |-> FALSE]
    ELSE
    LET spaceIdx == JsIndexOf(content, SP, i)
        mode == Utf8Decode(JsSlice(content, i, spaceIdx))
        nullIdx == JsIndexOf(content, NUL, spaceIdx)
        name == Utf8Decode(JsSlice(content, spaceIdx + 1, nullIdx))
        hashBytes == JsSlice(content, nullIdx, nullIdx + DigestUnits)
        hash == BinToHex(hashBytes)
    IN parseTreeFrom(content, nullIdx + 1 + DigestUnits,
                     Append(entries, [mode |-> mode, name |-> name, hash |-> hash]),
                     fuel - 1)

parseTreeFrom(content, i, entries, fuel) ==
    IF ~(i < Len(content)) THEN [entries |-> entries, ended |-> TRUE]
    ELSE IF fuel = 0 THEN [entries |-> entries, ended |-> FALSE]
    ELSE
    LET spaceIdx == JsIndexOf(content, SP, i)
        mode == Utf8Decode(JsSlice(content, i, spaceIdx))
        nullIdx == JsIndexOf(content, NUL, spaceIdx)
        name == Utf8Decode(JsSlice(content, spaceIdx + 1, nullIdx))
        hashBytes == JsSlice(content, nullIdx + 1, nullIdx + 1 + DigestUnits)
        hash == BinToHex(hashBytes)
    IN parseTreeFrom(content, nullIdx + 1 + DigestUnits,
                     Append(entries, [mode |-> mode, name |-> name, hash |-> hash]),
                     fuel - 1)

parseTree(content) == parseTreeFrom(content, 0, <<>>, Len(content) + 1).entries

\* Date#getTimezoneOffset of the host: minutes behind UTC
TIMEZONE_OFFSET_MINUTES == -330

\* String(n).padStart(2, '0')
PadStart2(n) == IF n < 10 THEN <<48>> \o Decimal(n) ELSE Decimal(n)

Timezone(offsetMinutes) ==
    LET sign == IF offsetMinutes <= 0 THEN <<43>> ELSE <<45>>
        absOffset == IF offsetMinutes < 0 THEN -offsetMinutes ELSE offsetMinutes
    IN sign \o PadStart2(absOffset \div 60) \o PadStart2(absOffset % 60)

\* parentHash is <<>> for null; `now` is Math.floor(Date.now() / 1000)
createCommit(treeHash, parentHash, message, author, now) ==
    LET timezone == Timezone(TIMEZONE_OFFSET_MINUTES)
        content ==
            S_treeSp \o treeHash \o <<LF>>
            \o (IF parentHash # <<>> THEN S_parentSp \o parentHash \o <<LF>> ELSE <<>>)
            \o S_authorSp \o author \o <<SP>> \o Decimal(now) \o <<SP>> \o timezone \o <<LF>>
            \o S_committerSp \o author \o <<SP>> \o Decimal(now) \o <<SP>> \o timezone \o <<LF>>
            \o <<LF>> \o message \o <<LF>>
    IN hashObject(Utf8Encode(content), S_commit)

\* parseCommit's header loop over lines[i..]
RECURSIVE parseHeaders(_, _, _)
parseHeaders(lines, i, commit) ==
    IF ~(i <= Len(lines) /\ lines[i] # <<>>) THEN [commit |-> commit, i |-> i]
    ELSE
    LET line == lines[i] IN
    parseHeaders(lines, i + 1,
        IF StartsWith(line, S_treeSp) THEN [commit EXCEPT !.tree = Slice(line, 6)]
        ELSE IF StartsWith(line, S_parentSp)
             THEN [commit EXCEPT !.parents = Append(@, Slice(line, 8))]
        ELSE IF StartsWith(line, S_authorSp) THEN [commit EXCEPT !.author = Slice(line, 8)]
        ELSE IF StartsWith(line, S_committerSp) THEN [commit EXCEPT !.committer = Slice(line, 11)]
        ELSE commit)

\* lines.slice(i).join('\n').trim(), i past the blank line
messageOf(lines, h) ==
    [h.commit EXCEPT !.message =
        Trim(Join(IF h.i + 1 > Len(lines) THEN <<>> ELSE SubSeq(lines, h.i + 1, Len(lines)), LF))]

parseLines(lines) ==
    messageOf(lines, parseHeaders(lines, 1,
        [tree |-> <<>>, parents |-> <<>>, author |-> <<>>, committer |-> <<>>, message |-> <<>>]))

\* null fields are <<>>
parseCommit(content) == parseLines(Split(Utf8Decode(content), LF))

----------------------------------------------------------------------------
(* refStore.js *)

\* the hash is <<>> for null
getHEAD(head, rf) ==
    LET headContent == Trim(head) IN
    IF StartsWith(headContent, S_refColon)
    THEN LET ref == Slice(headContent, 6)
             file == Slice(ref, Len(S_refsHeads) + 1)
         IN IF file \notin DOMAIN rf
            THEN [type |-> "branch", ref |-> ref, hash |-> <<>>]
            ELSE [type |-> "branch", ref |-> ref, hash |-> Trim(rf[file])]
    ELSE [type |-> "detached", ref |-> <<>>, hash |-> headContent]

updateHEAD(branchName) == S_refColon \o S_refsHeads \o branchName \o <<LF>>

\* refPath is "refs/heads/<name>"; the ref files after the call
updateRef(refPath, commitHash, rf) ==
    LET file == Slice(refPath, Len(S_refsHeads) + 1) IN
    [f \in DOMAIN rf \cup {file} |-> IF f = file THEN commitHash \o <<LF>> ELSE rf[f]]

resolveRef(refPath, rf) ==
    LET file == Slice(refPath, Len(S_refsHeads) + 1) IN
    IF file \notin DOMAIN rf THEN <<>> ELSE Trim(rf[file])

\* head.ref.split('/').pop(); <<>> for null
getCurrentBranch(head, rf) ==
    LET h == getHEAD(head, rf) IN
    IF h.type = "branch"
    THEN LET parts == Split(h.ref, SLASH) IN parts[Len(parts)]
    ELSE <<>>

----------------------------------------------------------------------------
(* JavaScript objects used as maps are functions; Object.entries order is     *)
(* the order SetToSeq gives.                                                 *)

RECURSIVE SetToSeq(_)
SetToSeq(S) ==
    IF S = {} THEN <<>>
    ELSE LET e == CHOOSE x \in S : TRUE IN <<e>> \o SetToSeq(S \ {e})

\* Object.assign(f, g)
Assign(f, g) ==
    [k \in DOMAIN f \cup DOMAIN g |-> IF k \in DOMAIN g THEN g[k] ELSE f[k]]

Put(f, k, v) == [j \in DOMAIN f \cup {k} |-> IF j = k THEN v ELSE f[j]]

Remove(f, k) == [j \in DOMAIN f \ {k} |-> f[j]]

Restrict(f, S) == [k \in S |-> f[k]]

----------------------------------------------------------------------------
(* indexStore.js *)

\* filePath.split(path.sep).join('/') on a POSIX host
normalizePath(filePath) == Join(Split(filePath, SLASH), SLASH)

addToIndex(filePath, blobHash, mode, idx) ==
    Put(idx, normalizePath(filePath), [hash |-> blobHash, mode |-> mode])

\* the index whose entries mirror a flat map
IndexOf_files(files) == [p \in DOMAIN files |-> [hash |-> files[p], mode |-> FILE_MODE]]

----------------------------------------------------------------------------
(* commit.js, merge.js: buildTreeRecursive *)

\* entries: path -> [hash, mode].  [ok, hash, store]: the tree's digest and the
\* object store after the subtrees and the tree are written; ok is FALSE, and hash
\* is <<>>, when the grouping loop or the spread of groups.__files__ throws.
RECURSIVE buildTreeRecursive(_, _)
RECURSIVE buildSubTrees(_, _, _, _)

\* what groups.__files__ holds once the first leaf or the first path under a
\* directory named __files__ is grouped: an array for the leaf, which later takes the
\* directory's paths as properties and drops them; a plain object for the directory,
\* on which push, or the spread into treeEntries, throws a TypeError
RECURSIVE filesKey(_, _)
filesKey(order, i) ==
    IF i > Len(order) THEN "absent"
    ELSE IF Len(Split(order[i], SLASH)) = 1 THEN "array"
    ELSE IF Split(order[i], SLASH)[1] = S_files THEN "object"
    ELSE filesKey(order, i + 1)

\* the index entries under dirName, keyed by the rest of their path
subEntriesOf(entries, dirName) ==
    LET under == {q \in DOMAIN entries : Len(Split(q, SLASH)) > 1 /\ Split(q, SLASH)[1] = dirName} IN
    [r \in {Join(Tail(Split(q, SLASH)), SLASH) : q \in under} |->
        entries[CHOOSE q \in under : Join(Tail(Split(q, SLASH)), SLASH) = r]]

\* treeEntries.push({mode: '040000', name: dirName, hash: subTreeHash})
pushSubTree(acc, dirName, sub) ==
    [ok |-> sub.ok,
     treeEntries |-> Append(acc.treeEntries, [mode |-> DIR_MODE, name |-> dirName, hash |-> sub.hash]),
     store |-> sub.store]

buildSubTrees(entries, dirNames, i, acc) ==
    IF i > Len(dirNames) \/ ~acc.ok THEN acc
    ELSE buildSubTrees(entries, dirNames, i + 1,
             pushSubTree(acc, dirNames[i],
                 buildTreeRecursive(subEntriesOf(entries, dirNames[i]), acc.store)))

\* writeObject(hash, store) of a created tree
writeTree(tree, store) ==
    [ok |-> TRUE, hash |-> tree.hash, store |-> writeObject(tree.hash, tree.store, store)]

\* the leaf entries of a level: [mode, name, hash]
fileEntries(entries, leaves) ==
    [i \in 1..Len(leaves) |->
        [mode |-> IF entries[leaves[i]].mode # <<>> THEN entries[leaves[i]].mode ELSE FILE_MODE,
         name |-> leaves[i],
         hash |-> entries[leaves[i]].hash]]

treeOf(built) ==
    IF ~built.ok THEN [ok |-> FALSE, hash |-> <<>>, store |-> built.store]
    ELSE writeTree(createTree(built.treeEntries), built.store)

\* the treeEntries of a level, the subtrees written: what createTree is handed
groupEntries(entries, store) ==
    buildSubTrees(entries,
        SetToSeq({Split(q, SLASH)[1] : q \in {r \in DOMAIN entries : Len(Split(r, SLASH)) > 1}}
                 \ {S_files}),
        1,
        [ok |-> TRUE,
         treeEntries |-> fileEntries(entries,
                             SelectSeq(SetToSeq(DOMAIN entries), LAMBDA q : Len(Split(q, SLASH)) = 1)),
         store |-> store])

buildTreeRecursive(entries, store) ==
    IF filesKey(SetToSeq(DOMAIN entries), 1) = "object"
    THEN [ok |-> FALSE, hash |-> <<>>, store |-> store]
    ELSE treeOf(groupEntries(entries, store))

buildTreeFromIndex(entries, store) == buildTreeRecursive(entries, store)

buildMergedTree(files, store) == buildTreeRecursive(IndexOf_files(files), store)

----------------------------------------------------------------------------
(* status.js: flattenTree *)

\* [ok, files]: ok is FALSE when a readObject threw
RECURSIVE flattenTree(_, _, _)
RECURSIVE flattenEntries(_, _, _, _, _)
RECURSIVE flattenEntry(_, _, _, _, _, _)
RECURSIVE flattenSub(_, _, _, _, _, _)

\* the entry's sub-map merged in, or the entry itself
flattenEntry(entries, i, prefix, files, store, fullPath) ==
    IF entries[i].mode = DIR_MODE
    THEN flattenSub(entries, i, prefix, files, store, flattenTree(entries[i].hash, fullPath, store))
    ELSE flattenEntries(entries, i + 1, prefix, Put(files, fullPath, entries[i].hash), store)

flattenSub(entries, i, prefix, files, store, sub) ==
    IF ~sub.ok THEN [ok |-> FALSE, files |-> files]
    ELSE flattenEntries(entries, i + 1, prefix, Assign(files, sub.files), store)

flattenEntries(entries, i, prefix, files, store) ==
    IF i > Len(entries) THEN [ok |-> TRUE, files |-> files]
    ELSE flattenEntry(entries, i, prefix, files, store,
             IF prefix # <<>> THEN prefix \o <<SLASH>> \o entries[i].name ELSE entries[i].name)

flattenRead(obj, prefix, store) ==
    IF ~obj.ok THEN [ok |-> FALSE, files |-> NoMap]
    ELSE flattenEntries(parseTree(obj.content), 1, prefix, NoMap, store)

flattenTree(treeHash, prefix, store) == flattenRead(readObject(treeHash, store), prefix, store)

\* parseCommit(content) of a read commit, and flattenTree(commit.tree, '')
filesOf(obj, store) ==
    IF ~obj.ok THEN [ok |-> FALSE, files |-> NoMap]
    ELSE flattenTree(parseCommit(obj.content).tree, <<>>, store)

\* readObject, parseCommit and flattenTree of a commit, as every command does
CommitFiles(commitHash, store) == filesOf(readObject(commitHash, store), store)

----------------------------------------------------------------------------
(* merge.js: history *)

\* commit.parents.length > 0 ? commit.parents[0] : null
firstOf(parents) == IF Len(parents) > 0 THEN parents[1] ELSE <<>>

parentOf(obj) ==
    IF ~obj.ok THEN [ok |-> FALSE, hash |-> <<>>]
    ELSE [ok |-> TRUE, hash |-> firstOf(parseCommit(obj.content).parents)]

\* the commit the walks step to; ok is FALSE when the read throws
FirstParent(commitHash, store) == parentOf(readObject(commitHash, store))

RECURSIVE isAncestorWalk(_, _, _, _)
RECURSIVE isAncestorStep(_, _, _, _, _)

isAncestorStep(potentialAncestor, current, visited, store, next) ==
    IF ~next.ok THEN FALSE
    ELSE isAncestorWalk(potentialAncestor, next.hash, visited \cup {current}, store)

\* isAncestor's loop from `current` on
isAncestorWalk(potentialAncestor, current, visited, store) ==
    IF current = <<>> THEN FALSE
    ELSE IF current = potentialAncestor THEN TRUE
    ELSE IF current \in visited THEN FALSE
    ELSE isAncestorStep(potentialAncestor, current, visited, store, FirstParent(current, store))

isAncestor(potentialAncestor, commitHash, store) ==
    isAncestorWalk(potentialAncestor, commitHash, {}, store)

\* findCommonAncestor's first loop: the set it collects.  The loop has no visited
\* set; `fuel` iterations are followed.
RECURSIVE collectAncestors(_, _, _, _)
RECURSIVE collectStep(_, _, _, _, _)

collectStep(current, ancestors1, store, fuel, next) ==
    IF ~next.ok THEN ancestors1 \cup {current}
    ELSE collectAncestors(next.hash, ancestors1 \cup {current}, store, fuel - 1)

collectAncestors(current, ancestors1, store, fuel) ==
    IF current = <<>> \/ fuel = 0 THEN ancestors1
    ELSE collectStep(current, ancestors1, store, fuel, FirstParent(current, store))

\* findCommonAncestor's second loop
RECURSIVE firstCommon(_, _, _, _)
RECURSIVE firstCommonStep(_, _, _, _)

firstCommonStep(ancestors1, store, fuel, next) ==
    IF ~next.ok THEN <<>> ELSE firstCommon(next.hash, ancestors1, store, fuel - 1)

firstCommon(current, ancestors1, store, fuel) ==
    IF current = <<>> \/ fuel = 0 THEN <<>>
    ELSE IF current \in ancestors1 THEN current
    ELSE firstCommonStep(ancestors1, store, fuel, FirstParent(current, store))

\* a second walk that starts from the parent of hash2
findCommonAncestor_fromParent(hash1, hash2, store) ==
    firstCommon(FirstParent(hash2, store).hash,
                collectAncestors(hash1, {}, store, Cardinality(DOMAIN store) + 1),
                store, Cardinality(DOMAIN store) + 1)

\* <<>> for null
findCommonAncestor(hash1, hash2, store) ==
    firstCommon(hash2,
                collectAncestors(hash1, {}, store, Cardinality(DOMAIN store) + 1),
                store, Cardinality(DOMAIN store) + 1)

----------------------------------------------------------------------------
(* merge.js: threeWayMerge, per path *)

\* The mutant keeps our side where only their side changed the path.
threeWayDecision_keepsOurs(inAncestor, inOurs, inTheirs) ==
    IF inOurs = inTheirs THEN [conflict |-> FALSE, hash |-> inOurs]
    ELSE IF inOurs = inAncestor THEN [conflict |-> FALSE, hash |-> inOurs]
    ELSE IF inTheirs = inAncestor THEN [conflict |-> FALSE, hash |-> inOurs]
    ELSE [conflict |-> TRUE, hash |-> <<>>]

\* inAncestor, inOurs, inTheirs: a blob digest, or <<>> for null
threeWayDecision(inAncestor, inOurs, inTheirs) ==
    IF inOurs = inTheirs THEN [conflict |-> FALSE, hash |-> inOurs]
    ELSE IF inOurs = inAncestor THEN [conflict |-> FALSE, hash |-> inTheirs]
    ELSE IF inTheirs = inAncestor THEN [conflict |-> FALSE, hash |-> inOurs]
    ELSE [conflict |-> TRUE, hash |-> <<>>]

\* readObject(h).content.toString(), '' for a null h
BlobText(h, store) ==
    IF h = <<>> THEN <<>> ELSE Utf8Decode(readObject(h, store).content)

\* The mutant closes the conflict before it separates the sides.
conflictContent_closesFirst(oursContent, theirsContent, branchName) ==
    S_oursMarker
    \o oursContent \o <<LF>>
    \o S_theirsMarker \o branchName \o <<LF>>
    \o theirsContent \o <<LF>>
    \o S_sepMarker

conflictContent(oursContent, theirsContent, branchName) ==
    S_oursMarker
    \o oursContent \o <<LF>>
    \o S_sepMarker
    \o theirsContent \o <<LF>>
    \o S_theirsMarker \o branchName \o <<LF>>

Lookup(files, filePath) == IF filePath \in DOMAIN files THEN files[filePath] ELSE <<>>

\* the conflict branch of the loop: the blob is created, written and recorded
recordConflict(acc, filePath, blob) ==
    [mergedFiles |-> Put(acc.mergedFiles, filePath, blob.hash),
     conflicts |-> acc.conflicts \cup {filePath},
     store |-> writeObject(blob.hash, blob.store, acc.store)]

\* one pass of the loop body
mergePath(acc, filePath, inOurs, inTheirs, branchName, d) ==
    IF ~d.conflict
    THEN (IF d.hash # <<>> THEN [acc EXCEPT !.mergedFiles = Put(@, filePath, d.hash)] ELSE acc)
    ELSE recordConflict(acc, filePath,
             createBlob(Utf8Encode(conflictContent(BlobText(inOurs, acc.store),
                                                   BlobText(inTheirs, acc.store),
                                                   branchName))))

\* the loop over allPaths: [mergedFiles, conflicts, store]
RECURSIVE mergePaths(_, _, _, _, _, _, _)
mergePaths(allPaths, i, ancestorFiles, oursFiles, theirsFiles, branchName, acc) ==
    IF i > Len(allPaths) THEN acc
    ELSE mergePaths(allPaths, i + 1, ancestorFiles, oursFiles, theirsFiles, branchName,
             mergePath(acc, allPaths[i],
                       Lookup(oursFiles, allPaths[i]), Lookup(theirsFiles, allPaths[i]),
                       branchName,
                       threeWayDecision(Lookup(ancestorFiles, allPaths[i]),
                                        Lookup(oursFiles, allPaths[i]),
                                        Lookup(theirsFiles, allPaths[i]))))

mergeFiles(ancestorFiles, oursFiles, theirsFiles, branchName, store) ==
    mergePaths(SetToSeq(DOMAIN ancestorFiles \cup DOMAIN oursFiles \cup DOMAIN theirsFiles),
               1, ancestorFiles, oursFiles, theirsFiles, branchName,
               [mergedFiles |-> NoMap, conflicts |-> {}, store |-> store])

\* The mutant names the merged branch's commit as the first parent.
mergeCommit_theirsFirst(mergedTreeHash, oursHash, theirsHash, branchName, now) ==
    LET timezone == Timezone(TIMEZONE_OFFSET_MINUTES)
        commitContent ==
            S_treeSp \o mergedTreeHash \o <<LF>>
            \o S_parentSp \o theirsHash \o <<LF>>
            \o S_parentSp \o oursHash \o <<LF>>
            \o S_authorSp \o AUTHOR \o <<SP>> \o Decimal(now) \o <<SP>> \o timezone \o <<LF>>
            \o S_committerSp \o AUTHOR \o <<SP>> \o Decimal(now) \o <<SP>> \o timezone \o <<LF>>
            \o <<LF>> \o S_mergeBranch \o branchName \o S_quote \o <<LF>>
    IN hashObject(Utf8Encode(commitContent), S_commit)

\* the merge commit, built by hand with two parents
mergeCommit(mergedTreeHash, oursHash, theirsHash, branchName, now) ==
    LET timezone == Timezone(TIMEZONE_OFFSET_MINUTES)
        commitContent ==
            S_treeSp \o mergedTreeHash \o <<LF>>
            \o S_parentSp \o oursHash \o <<LF>>
            \o S_parentSp \o theirsHash \o <<LF>>
            \o S_authorSp \o AUTHOR \o <<SP>> \o Decimal(now) \o <<SP>> \o timezone \o <<LF>>
            \o S_committerSp \o AUTHOR \o <<SP>> \o Decimal(now) \o <<SP>> \o timezone \o <<LF>>
            \o <<LF>> \o S_mergeBranch \o branchName \o S_quote \o <<LF>>
    IN hashObject(Utf8Encode(commitContent), S_commit)

----------------------------------------------------------------------------
(* The state a command reports: the operation, its outcome, the paths it    *)
(* names and its argument.                                                  *)

Report(op, outcome, paths, arg) ==
    [op |-> op, outcome |-> outcome, paths |-> paths, arg |-> arg]

\* the last step was no merge
Silent == Report("", "", {}, <<>>)

\* Math.floor(Date.now() / 1000): the second in which the commands run
Now == 0

\* init.js: initCommand in an empty directory
HeadOf(branchName) == S_refColon \o S_refsHeads \o branchName \o <<LF>>

InitRepo ==
    /\ objects = NoMap
    /\ index = NoMap
    /\ refs = NoMap
    /\ HEAD = HeadOf(DEFAULT_BRANCH)
    /\ work = NoMap
    /\ result = Silent

----------------------------------------------------------------------------
(* The object store on its own: objects of every type and content are       *)
(* hashed and written.                                                      *)

ObjectTypes == {S_blob, S_tree, S_commit}

StoreBytes == {NUL, 49}

RECURSIVE SeqsUpTo(_, _)
SeqsUpTo(S, n) ==
    IF n = 0 THEN {<<>>}
    ELSE LET shorter == SeqsUpTo(S, n - 1) IN
         shorter \cup {Append(q, e) : q \in shorter, e \in S}

StoreContents == SeqsUpTo(StoreBytes, MaxLen)

StoreWrite(type, content) ==
    \E h \in {hashObject(content, type)} :
        /\ Cardinality(DOMAIN objects) < MaxObjects \/ h.hash \in DOMAIN objects
        /\ objects' = writeObject(h.hash, h.store, objects)
        /\ UNCHANGED <<index, refs, HEAD, work, result>>

StoreNext == \E type \in ObjectTypes, content \in StoreContents : StoreWrite(type, content)

SpecStore == InitRepo /\ [][StoreNext]_vars

\* C2: after write(digest, framed) with (digest, framed) = hash_framed(type, content),
\* read(digest) returns exactly that type and that content, for every type and every
\* content, the empty one included; the stored bytes inflate to the framed buffer.
StoreRoundTrip ==
    \A type \in ObjectTypes, content \in StoreContents :
        LET h == hashObject(content, type) IN
        h.hash \in DOMAIN objects =>
            /\ decompress(objects[h.hash].data) = [ok |-> TRUE, data |-> h.store]
            /\ readObject(h.hash, objects) =
                   [ok |-> TRUE, err |-> "", type |-> type, content |-> content]

\* An empty tree was the last object written, after another object.
StoreRoundTripWitness ==
    /\ hashObject(<<>>, S_tree).hash \in DOMAIN objects
    /\ Cardinality(DOMAIN objects) = 2

----------------------------------------------------------------------------
(* The repository: the commands of bin/relic.js and the user's edits of the  *)
(* working tree.                                                            *)

P_x == <<120>>              \* "x"
P_dy == <<100, 47, 121>>    \* "d/y"
Paths == {P_x, P_dy}

C_B == <<66, 10>>           \* "B\n"
C_C == <<67, 10>>           \* "C\n"
C_bin == <<255>>            \* one byte that is no UTF-8, no final newline

B_main == DEFAULT_BRANCH
B_feat == <<102, 101, 97, 116>>   \* "feat"
Branches == {B_main, B_feat}

M_msg == <<109>>            \* "m"

RefPath(branchName) == S_refsHeads \o branchName

IsCommitData(data) == Len(data) > 2 /\ data[3] = S_commit[1]

NumCommits(store) == Cardinality({h \in DOMAIN store : IsCommitData(store[h].data)})

\* the repository a command finds
Repo ==
    [objects |-> objects, index |-> index, refs |-> refs, HEAD |-> HEAD,
     work |-> work, result |-> result]

\* the repository a command leaves
Becomes(repo) ==
    /\ objects' = repo.objects
    /\ index' = repo.index
    /\ refs' = repo.refs
    /\ HEAD' = repo.HEAD
    /\ work' = repo.work
    /\ result' = repo.result

\* addSingleFile once the blob is created
stage(repo, filePath, blob) ==
    [repo EXCEPT !.objects = writeObject(blob.hash, blob.store, @),
                 !.index = addToIndex(filePath, blob.hash, FILE_MODE, @),
                 !.result = Silent]

\* add.js: addSingleFile, run at the repository root on a path below it
addSingleFile(repo, filePath) ==
    IF filePath \notin DOMAIN repo.work THEN [repo EXCEPT !.result = Silent]
    ELSE stage(repo, filePath, createBlob(repo.work[filePath]))

\* addAllFiles' loop body once the blob is created
stageInto(acc, normalized, blob) ==
    [store |-> writeObject(blob.hash, blob.store, acc.store),
     idx |-> IF normalized \notin DOMAIN acc.idx \/ acc.idx[normalized].hash # blob.hash
             THEN Put(acc.idx, normalized, [hash |-> blob.hash, mode |-> FILE_MODE])
             ELSE acc.idx]

\* add.js: the loop of addAllFiles over the walked files
RECURSIVE addFiles(_, _, _, _)
addFiles(files, i, wk, acc) ==
    IF i > Len(files) THEN acc
    ELSE addFiles(files, i + 1, wk,
             stageInto(acc, normalizePath(files[i]), createBlob(wk[files[i]])))

addedAll(repo, done) ==
    [repo EXCEPT !.objects = done.store, !.index = done.idx, !.result = Silent]

\* add.js: addAllFiles
addAllFiles(repo) ==
    IF DOMAIN repo.work = {} THEN [repo EXCEPT !.result = Silent]
    ELSE addedAll(repo, addFiles(SetToSeq(DOMAIN repo.work), 1, repo.work,
                                 [store |-> repo.objects, idx |-> repo.index]))

\* indexStore.js: removeFromIndex
removeFromIndex(repo, filePath) ==
    [repo EXCEPT !.index = Restrict(@, DOMAIN @ \ {normalizePath(filePath)}), !.result = Silent]

\* commitCommand once the commit is created: steps 5 and 6
recordCommit(repo, store, head, commit) ==
    [repo EXCEPT !.objects = writeObject(commit.hash, commit.store, store),
                 !.refs = IF head.type = "branch" THEN updateRef(head.ref, commit.hash, @) ELSE @,
                 !.result = Silent]

\* a commit that never names a parent
commitTree_dropsParent(repo, message, root, head) ==
    recordCommit(repo, root.store, head,
                 createCommit(root.hash, <<>>, message, AUTHOR, Now))

\* commitCommand once the root tree is built: steps 3 and 4
commitTree(repo, message, root, head) ==
    IF ~root.ok THEN [repo EXCEPT !.objects = root.store, !.result = Silent]
    ELSE recordCommit(repo, root.store, head,
                      createCommit(root.hash, head.hash, message, AUTHOR, Now))

\* commit.js: commitCommand
commitCommand(repo, message) ==
    IF DOMAIN repo.index = {} THEN [repo EXCEPT !.result = Silent]
    ELSE commitTree(repo, message, buildTreeFromIndex(repo.index, repo.objects),
                    getHEAD(repo.HEAD, repo.refs))

createBranchAt(repo, name, head) ==
    IF head.hash = <<>> THEN [repo EXCEPT !.result = Silent]
    ELSE IF resolveRef(RefPath(name), repo.refs) # <<>> THEN [repo EXCEPT !.result = Silent]
    ELSE [repo EXCEPT !.refs = updateRef(RefPath(name), head.hash, @), !.result = Silent]

\* branch.js: handleCreateBranch
handleCreateBranch(repo, name) == createBranchAt(repo, name, getHEAD(repo.HEAD, repo.refs))

\* branch.js: handleDeleteBranch
handleDeleteBranch(repo, name) ==
    IF name = getCurrentBranch(repo.HEAD, repo.refs) THEN [repo EXCEPT !.result = Silent]
    ELSE IF name \notin DOMAIN repo.refs THEN [repo EXCEPT !.result = Silent]
    ELSE [repo EXCEPT !.refs = Remove(@, name), !.result = Silent]

\* checkout.js: checkForUncommittedChanges; TRUE when the command exits
checkForUncommittedChanges(idx, wk) ==
    \E filePath \in DOMAIN idx :
        /\ filePath \in DOMAIN wk
        /\ hashObject(wk[filePath], S_blob).hash # idx[filePath].hash

\* the working tree after every file of targetFiles is written
updateWorkingDirectory(targetFiles, wk, store) ==
    Assign(wk, [p \in DOMAIN targetFiles |-> readObject(targetFiles[p], store).content])

\* a checkout that leaves the files of the previous branch in place
materialize_keepsStale(repo, target, target_) ==
    IF ~target_.ok THEN repo
    ELSE [repo EXCEPT
            !.work = updateWorkingDirectory(target_.files, @, repo.objects),
            !.index = IndexOf_files(target_.files),
            !.HEAD = updateHEAD(target)]

\* checkoutCommand's steps 1 to 4 on the target's flat map
materialize(repo, target, target_) ==
    IF ~target_.ok THEN repo
    ELSE [repo EXCEPT
            !.work = updateWorkingDirectory(target_.files,
                         Restrict(@, {q \in DOMAIN @ : q \notin DOMAIN repo.index
                                                       \/ q \in DOMAIN target_.files}),
                         repo.objects),
            !.index = IndexOf_files(target_.files),
            !.HEAD = updateHEAD(target)]

\* checkoutCommand from the resolved target on
switchTo(repo, target, targetHash) ==
    IF targetHash = <<>> THEN repo
    ELSE IF checkForUncommittedChanges(repo.index, repo.work) THEN repo
    ELSE materialize(repo, target, CommitFiles(targetHash, repo.objects))

\* checkoutCommand past the createBranch block
resolveAndSwitch(repo, target) == switchTo(repo, target, resolveRef(RefPath(target), repo.refs))

createAndSwitch(repo, target, head) ==
    IF head.hash = <<>> THEN repo
    ELSE resolveAndSwitch([repo EXCEPT !.refs = updateRef(RefPath(target), head.hash, @)], target)

\* checkout.js: checkoutCommand
checkoutCommand(repo, target, createBranch) ==
    IF createBranch
    THEN createAndSwitch([repo EXCEPT !.result = Silent], target, getHEAD(repo.HEAD, repo.refs))
    ELSE resolveAndSwitch([repo EXCEPT !.result = Silent], target)

\* fastForwardMerge once the target's flat map is read
forwardTo(repo, branchName, target_) ==
    IF ~target_.ok THEN [repo EXCEPT !.result = Report("merge", "error", {}, <<>>)]
    ELSE [repo EXCEPT !.work = updateWorkingDirectory(target_.files, @, repo.objects),
                      !.index = IndexOf_files(target_.files),
                      !.result = Report("merge", "fast-forward", {}, branchName)]

\* merge.js: fastForwardMerge
fastForwardMerge(repo, head, targetHash, branchName) ==
    forwardTo([repo EXCEPT !.refs = IF head.type = "branch"
                                    THEN updateRef(head.ref, targetHash, @) ELSE @],
              branchName, CommitFiles(targetHash, repo.objects))

\* a merge that moves the merged branch to the merge commit as well
recordMerge_movesBoth(repo, store, head, branchName, commit) ==
    [repo EXCEPT !.objects = writeObject(commit.hash, commit.store, store),
                 !.refs = updateRef(RefPath(branchName), commit.hash,
                                    IF head.type = "branch"
                                    THEN updateRef(head.ref, commit.hash, @) ELSE @),
                 !.result = Report("merge", "merged", {}, branchName)]

\* threeWayMerge once the merge commit is hashed
recordMerge(repo, store, head, branchName, commit) ==
    [repo EXCEPT !.objects = writeObject(commit.hash, commit.store, store),
                 !.refs = IF head.type = "branch" THEN updateRef(head.ref, commit.hash, @) ELSE @,
                 !.result = Report("merge", "merged", {}, branchName)]

\* threeWayMerge once the merged tree is built
commitMerge(repo, head, targetHash, branchName, mergedTree) ==
    IF ~mergedTree.ok
    THEN [repo EXCEPT !.objects = mergedTree.store,
                      !.result = Report("merge", "error", {}, <<>>)]
    ELSE recordMerge(repo, mergedTree.store, head, branchName,
                     mergeCommit(mergedTree.hash, head.hash, targetHash, branchName, Now))

\* The mutant goes on to the merge commit with conflicts at hand.
finishMerge_commitsAnyway(repo, head, targetHash, branchName, merged) ==
    commitMerge([repo EXCEPT !.work = updateWorkingDirectory(merged.mergedFiles, @, merged.store),
                             !.index = IndexOf_files(merged.mergedFiles)],
                head, targetHash, branchName,
                buildMergedTree(merged.mergedFiles, merged.store))

\* threeWayMerge once the paths are merged: working directory, index, and then
\* the MergeConflict or the merge commit
finishMerge(repo, head, targetHash, branchName, merged) ==
    IF merged.conflicts # {}
    THEN [repo EXCEPT !.objects = merged.store,
                      !.work = updateWorkingDirectory(merged.mergedFiles, @, merged.store),
                      !.index = IndexOf_files(merged.mergedFiles),
                      !.result = Report("merge", "MergeConflict", merged.conflicts, branchName)]
    ELSE commitMerge([repo EXCEPT !.work = updateWorkingDirectory(merged.mergedFiles, @, merged.store),
                                  !.index = IndexOf_files(merged.mergedFiles)],
                     head, targetHash, branchName,
                     buildMergedTree(merged.mergedFiles, merged.store))

\* threeWayMerge once the three flat maps are read
mergeMaps(repo, head, targetHash, branchName, ancestor_, ours_, theirs_) ==
    IF ~(ancestor_.ok /\ ours_.ok /\ theirs_.ok)
    THEN [repo EXCEPT !.result = Report("merge", "error", {}, <<>>)]
    ELSE finishMerge(repo, head, targetHash, branchName,
             mergeFiles(ancestor_.files, ours_.files, theirs_.files, branchName, repo.objects))

\* threeWayMerge once the common ancestor is found
mergeFrom(repo, head, targetHash, branchName, ancestorHash) ==
    IF ancestorHash = <<>> THEN [repo EXCEPT !.result = Report("merge", "fatal", {}, <<>>)]
    ELSE mergeMaps(repo, head, targetHash, branchName,
                   CommitFiles(ancestorHash, repo.objects),
                   CommitFiles(head.hash, repo.objects),
                   CommitFiles(targetHash, repo.objects))

\* merge.js: threeWayMerge
threeWayMerge(repo, head, targetHash, branchName) ==
    mergeFrom(repo, head, targetHash, branchName,
              findCommonAncestor(head.hash, targetHash, repo.objects))

\* mergeCommand once HEAD and the target are resolved
mergeInto(repo, branchName, head, targetHash) ==
    IF head.hash = <<>> THEN [repo EXCEPT !.result = Report("merge", "fatal", {}, <<>>)]
    ELSE IF targetHash = <<>> THEN [repo EXCEPT !.result = Report("merge", "fatal", {}, <<>>)]
    ELSE IF head.hash = targetHash
    THEN [repo EXCEPT !.result = Report("merge", "Already up to date.", {}, branchName)]
    ELSE IF isAncestor(head.hash, targetHash, repo.objects)
    THEN fastForwardMerge(repo, head, targetHash, branchName)
    ELSE IF isAncestor(targetHash, head.hash, repo.objects)
    THEN [repo EXCEPT !.result = Report("merge", "Already up to date.", {}, branchName)]
    ELSE threeWayMerge(repo, head, targetHash, branchName)

\* merge.js: mergeCommand
mergeCommand(repo, branchName) ==
    mergeInto(repo, branchName, getHEAD(repo.HEAD, repo.refs),
              resolveRef(RefPath(branchName), repo.refs))

----------------------------------------------------------------------------
(* The steps: a command run on the repository, or the user's edit of a      *)
(* working file.                                                            *)

WriteFile(p, c) ==
    /\ ~(p \in DOMAIN work /\ work[p] = c)
    /\ work' = Put(work, p, c)
    /\ result' = Silent
    /\ UNCHANGED <<objects, index, refs, HEAD>>

DeleteFile(p) ==
    /\ p \in DOMAIN work
    /\ work' = Remove(work, p)
    /\ result' = Silent
    /\ UNCHANGED <<objects, index, refs, HEAD>>

Add(filePath) == \E after \in {addSingleFile(Repo, filePath)} : Becomes(after)

AddAll == \E after \in {addAllFiles(Repo)} : Becomes(after)

\* at most cap commit objects are made
Commit(message, cap) ==
    \E after \in {commitCommand(Repo, message)} :
        /\ NumCommits(after.objects) <= cap
        /\ Becomes(after)

BranchCreate(name) == \E after \in {handleCreateBranch(Repo, name)} : Becomes(after)

BranchDelete(name) == \E after \in {handleDeleteBranch(Repo, name)} : Becomes(after)

Checkout(target, createBranch) ==
    \E after \in {checkoutCommand(Repo, target, createBranch)} : Becomes(after)

Merge(branchName, cap) ==
    \E after \in {mergeCommand(Repo, branchName)} :
        /\ NumCommits(after.objects) <= cap
        /\ Becomes(after)

----------------------------------------------------------------------------
(* A repository driven from `relic init` by the commands and by edits of    *)
(* two working files.                                                       *)

\* the edits the user makes: two contents for one file, the first of them for the other
Edits == {<<P_x, C_B>>, <<P_x, C_C>>, <<P_dy, C_B>>}

Next ==
    \/ \E e \in Edits : WriteFile(e[1], e[2])
    \/ \E p \in Paths : DeleteFile(p)
    \/ \E p \in Paths : Add(p)
    \/ AddAll
    \/ Commit(M_msg, MaxCommits)
    \/ \E b \in Branches : BranchCreate(b)
    \/ \E b \in Branches : BranchDelete(b)
    \/ \E b \in Branches, createBranch \in BOOLEAN : Checkout(b, createBranch)
    \/ \E b \in Branches : Merge(b, MaxCommits)

Spec == InitRepo /\ [][Next]_vars

\* C1: over every step of init, add, commit, branch create and delete, checkout and
\* merge, the object store only grows: a digest that holds an object holds it after
\* the step, with the same stored bytes.
StoreAppendOnly ==
    [][\A h \in DOMAIN objects :
          /\ h \in DOMAIN objects'
          /\ objects'[h].data = objects[h].data]_vars

\* Two commits stand in the store next to their trees and blobs, and the last
\* step was a merge that moved the branch forward.
StoreAppendOnlyWitness ==
    /\ NumCommits(objects) = 2
    /\ Cardinality(DOMAIN objects) >= 6
    /\ result.outcome = "fast-forward"

\* the blobs of the store that hold `content`
BlobsHolding(content) ==
    {h \in DOMAIN objects :
        readObject(h, objects) = [ok |-> TRUE, err |-> "", type |-> S_blob, content |-> content]}

\* the bytes staged under an index entry
StagedBytes(p) == readObject(index[p].hash, objects).content

\* C3: a write under a digest that holds an object leaves the store as it is, the
\* file is written once and never again; index entries staged from identical bytes
\* carry the same digest, and the store holds exactly one blob for those bytes.
WriteOnceAndDeduplicated ==
    /\ \A h \in DOMAIN objects : objects[h].writes = 1
    /\ \A p \in DOMAIN index : index[p].hash \in DOMAIN objects
    /\ \A p, q \in DOMAIN index :
          StagedBytes(p) = StagedBytes(q) => index[p].hash = index[q].hash
    /\ \A p \in DOMAIN index : Cardinality(BlobsHolding(StagedBytes(p))) = 1

\* Both files were staged with the same bytes, the second after the first, and
\* one blob holds them.
WriteOnceAndDeduplicatedWitness ==
    /\ DOMAIN index = {P_x, P_dy}
    /\ index[P_x].hash = index[P_dy].hash
    /\ BlobsHolding(C_B) = {index[P_x].hash}
    /\ Cardinality(DOMAIN objects) = 1

----------------------------------------------------------------------------
(* Merging: repositories whose two branches grew from one base commit, from *)
(* then on driven by merge and checkout.  The base and the two sides are    *)
(* flat maps, a path absent from a side having been removed there.          *)

M_ours == <<111>>           \* "o"
M_theirs == <<116>>         \* "t"

\* the maps from some of the paths to the contents
FileMaps(contents) == UNION {[S -> contents] : S \in SUBSET Paths \ {{}}}

BaseMaps == FileMaps({C_B})

SideMaps == {m \in FileMaps({C_B, C_C, C_bin}) : P_dy \in DOMAIN m => m[P_dy] # C_bin}

\* indexStore.js: removeFromIndex of every staged path the working tree lacks
RECURSIVE removeMissing(_, _, _)
removeMissing(repo, staged, i) ==
    IF i > Len(staged) THEN repo
    ELSE removeMissing(IF staged[i] \in DOMAIN repo.work THEN repo
                       ELSE removeFromIndex(repo, staged[i]),
                       staged, i + 1)

\* the working tree is edited to hold `files`, staged and committed
snapshot(repo, files, message) ==
    commitCommand(removeMissing(addAllFiles([repo EXCEPT !.work = files]),
                                SetToSeq(DOMAIN repo.index), 1),
                  message)

\* a side's commit on the checked out branch, none when the side left the base alone
sideCommit(repo, base, files, message) ==
    IF files = base THEN repo ELSE snapshot(repo, files, message)

\* init; base committed on main; branch feat; ours committed on main;
\* checkout feat; theirs committed on feat; checkout main
Diverged(base, ours, theirs) ==
    checkoutCommand(
        sideCommit(
            checkoutCommand(
                sideCommit(
                    handleCreateBranch(
                        snapshot([objects |-> NoMap, index |-> NoMap, refs |-> NoMap,
                                  HEAD |-> HeadOf(DEFAULT_BRANCH), work |-> NoMap,
                                  result |-> Silent],
                                 base, M_msg),
                        B_feat),
                    base, ours, M_ours),
                B_feat, FALSE),
            base, theirs, M_theirs),
        B_main, FALSE)

InitMerge ==
    \E base \in BaseMaps, ours \in SideMaps, theirs \in SideMaps :
        \E repo \in {Diverged(base, ours, theirs)} :
            /\ objects = repo.objects
            /\ index = repo.index
            /\ refs = repo.refs
            /\ HEAD = repo.HEAD
            /\ work = repo.work
            /\ result = repo.result

NextMerge ==
    \/ \E b \in Branches : Merge(b, MaxMerged)
    \/ \E b \in Branches : Checkout(b, FALSE)

SpecMerge == InitMerge /\ [][NextMerge]_vars

----------------------------------------------------------------------------
(* What a merge step starts from, and what the history and the merge table  *)
(* say of it.                                                               *)

\* the step is `relic merge b` and got past resolving HEAD and b
MergeRan(b) == result'.op = "merge" /\ result'.arg = b

\* the step went through the three-way merge of its paths
ThreeWayRan(b) == MergeRan(b) /\ result'.outcome \in {"merged", "MergeConflict"}

HeadCommit == getHEAD(HEAD, refs).hash

TargetCommit(b) == resolveRef(RefPath(b), refs)

\* every commit a commit's parent lines name
ParentsOf(h, store) ==
    LET obj == readObject(h, store) IN
    IF ~obj.ok THEN {}
    ELSE LET parents == parseCommit(obj.content).parents IN {parents[i] : i \in DOMAIN parents}

\* the commits of `frontier` and all that parent links lead to from them
RECURSIVE ReachableFrom(_, _, _)
ReachableFrom(frontier, seen, store) ==
    IF frontier \subseteq seen THEN seen
    ELSE ReachableFrom(UNION {ParentsOf(h, store) : h \in frontier \ seen},
                       seen \cup frontier, store)

\* a is b or an ancestor of b
Reaches(b, a, store) == a \in ReachableFrom({b}, {}, store)

\* the flat maps the merge of b reads
OursMap == CommitFiles(HeadCommit, objects).files

TheirsMap(b) == CommitFiles(TargetCommit(b), objects).files

BaseMap(b) ==
    CommitFiles(findCommonAncestor(HeadCommit, TargetCommit(b), objects), objects).files

\* The merge table on one path: X in the base, Y in ours, Z in theirs, each a
\* digest or <<>> for absent.
TableConflict(X, Y, Z) == Y # Z /\ Y # X /\ Z # X

TableValue(X, Y, Z) ==
    CHOOSE v \in {Y, Z} :
        /\ Y = Z => v = Y
        /\ (Y = X /\ Z # X) => v = Z
        /\ (Z = X /\ Y # X) => v = Y

TablePaths(base, ours, theirs) == DOMAIN base \cup DOMAIN ours \cup DOMAIN theirs

TableConflicts(base, ours, theirs) ==
    {p \in TablePaths(base, ours, theirs) :
        TableConflict(Lookup(base, p), Lookup(ours, p), Lookup(theirs, p))}

\* the paths the table keeps without conflict, with their digests
TableMerged(base, ours, theirs) ==
    [p \in {q \in TablePaths(base, ours, theirs) :
               /\ ~TableConflict(Lookup(base, q), Lookup(ours, q), Lookup(theirs, q))
               /\ TableValue(Lookup(base, q), Lookup(ours, q), Lookup(theirs, q)) # <<>>}
        |-> TableValue(Lookup(base, p), Lookup(ours, p), Lookup(theirs, p))]

\* the digests of an index, path by path
HashesOf(idx) == [p \in DOMAIN idx |-> idx[p].hash]

\* C4: when the HEAD commit A is an ancestor of the target commit B and is not B,
\* merging B creates no object, sets the current branch's ref to B and leaves HEAD
\* and every other ref as they were.
AncestorHeadFastForwards ==
    [][\A b \in Branches :
          (/\ MergeRan(b)
           /\ HeadCommit # TargetCommit(b)
           /\ Reaches(TargetCommit(b), HeadCommit, objects))
          => /\ objects' = objects
             /\ refs' = updateRef(getHEAD(HEAD, refs).ref, TargetCommit(b), refs)
             /\ HEAD' = HEAD]_vars

\* C5: when the target commit is reachable from the HEAD commit by parent links,
\* merge reports "Already up to date." and changes nothing: no object, no ref, not
\* HEAD, not the index, not the working tree.
AncestorTargetIsUpToDate ==
    [][\A b \in Branches :
          (MergeRan(b) /\ Reaches(HeadCommit, TargetCommit(b), objects))
          => /\ result'.outcome = "Already up to date."
             /\ UNCHANGED <<objects, index, refs, HEAD, work>>]_vars

\* the table decided every path: the conflicts are `conflicts`, every other path
\* holds its table value in `hashes` or is omitted
Decided(base, ours, theirs, hashes, conflicts) ==
    /\ conflicts = TableConflicts(base, ours, theirs)
    /\ DOMAIN hashes \subseteq TablePaths(base, ours, theirs)
    /\ \A p \in TablePaths(base, ours, theirs) \ TableConflicts(base, ours, theirs) :
          Lookup(hashes, p) = TableValue(Lookup(base, p), Lookup(ours, p), Lookup(theirs, p))

\* C6: a three-way merge decides every path of the union of base, ours and theirs
\* by the table: ours = theirs gives that value, ours = base gives theirs' value,
\* theirs = base gives ours' value, an absent value omitting the path; any other
\* path, and no other, is collected as conflicted.
MergeFollowsTable ==
    [][\A b \in Branches :
          ThreeWayRan(b) =>
              Decided(BaseMap(b), OursMap, TheirsMap(b), HashesOf(index'), result'.paths)]_vars

\* A merge conflicted on one path and dropped the other, which their side removed.
MergeFollowsTableWitness ==
    /\ result.outcome = "MergeConflict"
    /\ result.paths = {P_x}
    /\ P_dy \in DOMAIN CommitFiles(HeadCommit, objects).files
    /\ DOMAIN index = {P_x}

\* what a conflicted merge leaves: no commit object, the index over the whole merged
\* map, each conflicted path under a blob that the working file holds
ConflictLeft(base, ours, theirs, made, idx, wk, store) ==
    /\ \A h \in made : readObject(h, store).type = S_blob
    /\ DOMAIN idx = DOMAIN TableMerged(base, ours, theirs) \cup TableConflicts(base, ours, theirs)
    /\ \A p \in DOMAIN TableMerged(base, ours, theirs) :
          idx[p].hash = TableMerged(base, ours, theirs)[p]
    /\ \A p \in TableConflicts(base, ours, theirs) :
          /\ p \in DOMAIN wk
          /\ idx[p].hash \notin {Lookup(ours, p), Lookup(theirs, p)}
          /\ readObject(idx[p].hash, store) =
                 [ok |-> TRUE, err |-> "", type |-> S_blob, content |-> wk[p]]

\* C7: a three-way merge with a conflicted path surfaces MergeConflict naming exactly
\* the conflicted paths, creates no commit object, leaves the refs and HEAD alone,
\* sets the index to the whole merged map and leaves each conflicted working file
\* holding the bytes of the conflict blob its index entry names.
ConflictStopsBeforeCommit ==
    [][\A b \in Branches :
          (ThreeWayRan(b) /\ TableConflicts(BaseMap(b), OursMap, TheirsMap(b)) # {})
          => /\ result'.outcome = "MergeConflict"
             /\ result'.paths = TableConflicts(BaseMap(b), OursMap, TheirsMap(b))
             /\ refs' = refs
             /\ HEAD' = HEAD
             /\ ConflictLeft(BaseMap(b), OursMap, TheirsMap(b),
                             DOMAIN objects' \ DOMAIN objects, index', work', objects')]_vars

\* A merge conflicted on one path and took the other from their side.
ConflictStopsBeforeCommitWitness ==
    /\ result.outcome = "MergeConflict"
    /\ result.paths = {P_x}
    /\ DOMAIN index = {P_x, P_dy}
    /\ index[P_dy].hash = createBlob(C_C).hash
    /\ Lookup(CommitFiles(HeadCommit, objects).files, P_dy) = createBlob(C_B).hash

\* the commits among the objects `made`
CommitsOf(made, store) == {h \in made : readObject(h, store).type = S_commit}

\* the commit c holds the tree of `merged` under the parents ours and theirs
MergeCommitIs(c, merged, ours, theirs, store) ==
    /\ parseCommit(readObject(c, store).content).parents = <<ours, theirs>>
    /\ parseCommit(readObject(c, store).content).tree = buildMergedTree(merged, store).hash
    /\ CommitFiles(c, store) = [ok |-> TRUE, files |-> merged]

\* C8: a three-way merge without a conflicted path creates exactly one commit, its
\* tree the tree of the merged map, its parent lines ours (the HEAD commit before)
\* and then theirs (the target commit), and sets the current branch's ref to it.
CleanMergeCommitsOnce ==
    [][\A b \in Branches :
          (ThreeWayRan(b) /\ TableConflicts(BaseMap(b), OursMap, TheirsMap(b)) = {})
          => /\ Cardinality(CommitsOf(DOMAIN objects' \ DOMAIN objects, objects')) = 1
             /\ \A c \in CommitsOf(DOMAIN objects' \ DOMAIN objects, objects') :
                   /\ MergeCommitIs(c, TableMerged(BaseMap(b), OursMap, TheirsMap(b)),
                                    HeadCommit, TargetCommit(b), objects')
                   /\ refs' = updateRef(getHEAD(HEAD, refs).ref, c, refs)
                   /\ HEAD' = HEAD]_vars

\* The branch stands at a commit of two parents whose tree joins a change of
\* each side.
CleanMergeCommitsOnceWitness ==
    /\ result.outcome = "merged"
    /\ Len(parseCommit(readObject(HeadCommit, objects).content).parents) = 2
    /\ DOMAIN index = {P_x, P_dy}
    /\ index[P_x].hash = createBlob(C_C).hash
    /\ index[P_dy].hash = createBlob(C_C).hash

\* the bytes of a blob, none for an absent one
BlobBytes(h, store) == IF h = <<>> THEN <<>> ELSE readObject(h, store).content

EndsWithNewline(bytes) == Len(bytes) > 0 /\ bytes[Len(bytes)] = LF

\* "<<<<<<< HEAD\n" + O + "=======\n" + T + ">>>>>>> N\n"
ExactConflict(O, T, N) ==
    S_oursMarker \o O \o S_sepMarker \o T \o S_theirsMarker \o N \o <<LF>>

\* C9: for a conflicted path whose ours content O and theirs content T each end
\* with a newline, the conflict blob and the working file are exactly
\* "<<<<<<< HEAD\n" + O + "=======\n" + T + ">>>>>>> N\n", N the merged branch.
ConflictBytesExact ==
    [][\A b \in Branches :
          (MergeRan(b) /\ result'.outcome = "MergeConflict")
          => \A p \in result'.paths :
                (/\ EndsWithNewline(BlobBytes(Lookup(OursMap, p), objects))
                 /\ EndsWithNewline(BlobBytes(Lookup(TheirsMap(b), p), objects)))
                => /\ work'[p] = ExactConflict(BlobBytes(Lookup(OursMap, p), objects),
                                               BlobBytes(Lookup(TheirsMap(b), p), objects), b)
                   /\ BlobBytes(index'[p].hash, objects') = work'[p]]_vars

\* pattern stands in bytes from position i on
OccursAt(bytes, pattern, i) ==
    /\ i + Len(pattern) - 1 <= Len(bytes)
    /\ SubSeq(bytes, i, i + Len(pattern) - 1) = pattern

\* the file begins with "<<<<<<< HEAD\n" and holds "=======\n" and, after it,
\* ">>>>>>> <target>\n"
HasMarkersInOrder(bytes, target) ==
    /\ OccursAt(bytes, S_oursMarker, 1)
    /\ \E i \in Len(S_oursMarker) + 1 .. Len(bytes) :
          /\ OccursAt(bytes, S_sepMarker, i)
          /\ \E j \in i + Len(S_sepMarker) .. Len(bytes) :
                OccursAt(bytes, S_theirsMarker \o target \o <<LF>>, j)

\* C10: after a three-way merge that conflicts on path p, whatever the two sides
\* held and also when a side deleted p, the working file at p begins with
\* "<<<<<<< HEAD\n" and contains "=======\n" and then ">>>>>>> <target>\n".
ConflictMarkersInOrder ==
    result.outcome = "MergeConflict" =>
        /\ result.paths # {}
        /\ \A p \in result.paths :
              p \in DOMAIN work /\ HasMarkersInOrder(work[p], result.arg)

\* The conflict is between a side that deleted the file and a side that changed it.
ConflictMarkersInOrderWitness ==
    /\ result.outcome = "MergeConflict"
    /\ P_x \in result.paths
    /\ P_x \notin DOMAIN CommitFiles(HeadCommit, objects).files
    /\ work[P_x] = S_oursMarker \o <<LF>> \o S_sepMarker \o C_C \o <<LF>>
                    \o S_theirsMarker \o B_feat \o <<LF>>

----------------------------------------------------------------------------
(* Checkout, commit and branch creation, over the steps of Spec.            *)

\* some indexed path has a working file whose blob digest is not the indexed digest
Dirty ==
    \E p \in DOMAIN index :
        /\ p \in DOMAIN work
        /\ hashObject(work[p], S_blob).hash # index[p].hash

\* `after` is this repository switched to branch b, whose flat map is `map`
SwitchedTo(b, map, after) ==
    /\ getHEAD(after.HEAD, after.refs) =
            [type |-> "branch", ref |-> RefPath(b), hash |-> TargetCommit(b)]
    /\ HashesOf(after.index) = map
    /\ \A p \in DOMAIN map :
            p \in DOMAIN after.work /\ after.work[p] = BlobBytes(map[p], objects)
    /\ \A p \in DOMAIN index \ DOMAIN map : p \notin DOMAIN after.work
    /\ after.refs = refs

Untouched(after) ==
    /\ after.refs = refs
    /\ after.HEAD = HEAD
    /\ after.index = index
    /\ after.work = work
    /\ after.objects = objects

\* C12: when some indexed path has a working file whose blob digest differs from the
\* indexed digest, `checkout <branch>` and `checkout -b <branch>` mutate nothing:
\* every branch ref, HEAD, the index, the working tree and the object store are as
\* they were before the call.
DirtyCheckoutMutatesNothing ==
    \A b \in Branches, createBranch \in BOOLEAN :
        Dirty => Untouched(checkoutCommand(Repo, b, createBranch))

\* the working files that hold uncommitted changes: a tracked file modified since it
\* was staged, a file whose staged version is not the HEAD commit's version, or an
\* untracked file
UncommittedPaths ==
    {p \in DOMAIN work :
        \/ p \notin DOMAIN index
        \/ p \in DOMAIN index /\ hashObject(work[p], S_blob).hash # index[p].hash
        \/ p \in DOMAIN index
           /\ index[p].hash # Lookup(CommitFiles(HeadCommit, objects).files, p)}

\* the working file at p is in `after` with the bytes it has now
Kept(p, after) == p \in DOMAIN after.work /\ after.work[p] = work[p]

\* C13: checkout, checkout -b and merge leave every working file that holds
\* uncommitted changes in place with its bytes.
UncommittedChangesSurvive ==
    \A b \in Branches, p \in UncommittedPaths :
        /\ Kept(p, checkoutCommand(Repo, b, FALSE))
        /\ Kept(p, checkoutCommand(Repo, b, TRUE))
        /\ Kept(p, mergeCommand(Repo, b))

\* branch refs, HEAD, the index and the tracked working files of `after` are all as
\* they are now
AllBefore(after) ==
    /\ after.refs = refs
    /\ after.HEAD = HEAD
    /\ after.index = index
    /\ \A p \in DOMAIN index : Lookup(after.work, p) = Lookup(work, p)

\* branch refs, HEAD, the index and the tracked working files of `after` are all as
\* the completed checkout of b leaves them, rf being the refs once b is created
AllSwitched(b, rf, map, after) ==
    /\ after.refs = rf
    /\ after.HEAD = updateHEAD(b)
    /\ HashesOf(after.index) = map
    /\ \A p \in DOMAIN map : Lookup(after.work, p) = BlobBytes(map[p], objects)
    /\ \A p \in DOMAIN index \ DOMAIN map : p \notin DOMAIN after.work

\* the refs a completed checkout of b leaves
RefsOnceCreated(b, createBranch) ==
    IF createBranch THEN updateRef(RefPath(b), HeadCommit, refs) ELSE refs

\* the checkout stops with an error: no commit to branch from, an unknown branch, or
\* a dirty working tree
CheckoutFails(b, createBranch) ==
    \/ createBranch /\ HeadCommit = <<>>
    \/ ~createBranch /\ TargetCommit(b) = <<>>
    \/ Dirty

\* C14: a commit, checkout, branch or merge that stops with an error other than a
\* merge conflict leaves branch refs, HEAD, the index and the tracked working files
\* either all as before the command or all as the completed command leaves them.
\* The commit, branch and merge commands that fail here are refused before they
\* write, so for them the two states are one.
ErrorsLeaveNoMixture ==
    \A b \in Branches :
        /\ \A createBranch \in BOOLEAN :
              CheckoutFails(b, createBranch)
              => \/ AllBefore(checkoutCommand(Repo, b, createBranch))
                 \/ AllSwitched(b, RefsOnceCreated(b, createBranch),
                        CommitFiles(resolveRef(RefPath(b), RefsOnceCreated(b, createBranch)),
                                    objects).files,
                        checkoutCommand(Repo, b, createBranch))
        /\ mergeCommand(Repo, b).result.outcome \in {"fatal", "error"}
              => AllBefore(mergeCommand(Repo, b))
        /\ (HeadCommit = <<>> \/ TargetCommit(b) # <<>>)
              => AllBefore(handleCreateBranch(Repo, b))
        /\ (b = getCurrentBranch(HEAD, refs) \/ b \notin DOMAIN refs)
              => AllBefore(handleDeleteBranch(Repo, b))
        /\ DOMAIN index = {} => AllBefore(commitCommand(Repo, M_msg))

\* `after` is this repository with one more commit c on HEAD's branch: c holds the
\* tree of the index under the commit HEAD resolved to, the objects written are c and
\* trees, and nothing else has moved
Committed(c, after) ==
    /\ c # <<>>
    /\ \E obj \in {readObject(c, after.objects)} :
          /\ obj.ok
          /\ obj.type = S_commit
          /\ parseCommit(obj.content).tree = buildTreeFromIndex(index, objects).hash
          /\ parseCommit(obj.content).parents
                = IF HeadCommit = <<>> THEN <<>> ELSE <<HeadCommit>>
    /\ CommitFiles(c, after.objects) = [ok |-> TRUE, files |-> HashesOf(index)]
    /\ \A h \in DOMAIN after.objects \ DOMAIN objects :
          h = c \/ readObject(h, after.objects).type = S_tree
    /\ \A h \in DOMAIN objects :
          h \in DOMAIN after.objects /\ after.objects[h].data = objects[h].data
    /\ \A name \in (DOMAIN refs \cup DOMAIN after.refs) :
          RefPath(name) # getHEAD(HEAD, refs).ref
          => name \in DOMAIN refs /\ name \in DOMAIN after.refs
             /\ after.refs[name] = refs[name]
    /\ after.HEAD = HEAD
    /\ after.index = index
    /\ after.work = work

\* C15: a commit with a non-empty index writes the trees built from the index and one
\* commit whose tree is that root tree and whose parents are exactly the commit HEAD
\* resolved to (none when HEAD's branch has no commit yet), sets the branch HEAD is
\* symbolic to to that commit, and leaves HEAD, the index, the working tree and every
\* other branch ref unchanged.
CommitRecordsIndex ==
    DOMAIN index # {}
    => \E after \in {commitCommand(Repo, M_msg)} :
          \E c \in {getHEAD(HEAD, after.refs).hash} : Committed(c, after)

\* The branch HEAD is on holds a commit whose one parent is the first commit, and
\* whose tree is the index, which the first commit's tree is not.
CommitRecordsIndexWitness ==
    /\ NumCommits(objects) = 2
    /\ HeadCommit # <<>>
    /\ Cardinality(ParentsOf(HeadCommit, objects)) = 1
    /\ \A parent \in ParentsOf(HeadCommit, objects) :
          /\ ParentsOf(parent, objects) = {}
          /\ CommitFiles(parent, objects).files # HashesOf(index)
    /\ CommitFiles(HeadCommit, objects).files = HashesOf(index)
    /\ P_dy \in DOMAIN index

\* `after` holds branch b as a creation must leave it: at the commit HEAD resolves to
\* when b did not exist, at its own commit when it did
CreatedOrKept(b, after) ==
    IF TargetCommit(b) = <<>>
    THEN HeadCommit # <<>> => resolveRef(RefPath(b), after.refs) = HeadCommit
    ELSE resolveRef(RefPath(b), after.refs) = TargetCommit(b)

\* C17: `branch <name>` and `checkout -b <name>` set refs/heads/<name> to the commit
\* HEAD resolves to only when no branch of that name exists; when the name exists
\* the existing branch keeps its digest.
CreateNeverOverwrites ==
    \A b \in Branches :
        /\ CreatedOrKept(b, handleCreateBranch(Repo, b))
        /\ CreatedOrKept(b, checkoutCommand(Repo, b, TRUE))

----------------------------------------------------------------------------
(* Branch names with a directory part: `relic branch feat/x` writes the file *)
(* refs/heads/feat/x, and HEAD on it reads "ref: refs/heads/feat/x".         *)

\* "feat/x"
B_fx == <<102, 101, 97, 116, SLASH, 120>>

Names == {B_main, B_fx}

NextNames ==
    \/ \E c \in {C_B, C_C} : WriteFile(P_x, c)
    \/ Add(P_x)
    \/ Commit(M_msg, MaxCommits)
    \/ \E b \in Names : BranchCreate(b)
    \/ \E b \in Names : BranchDelete(b)
    \/ \E b \in Names, createBranch \in BOOLEAN : Checkout(b, createBranch)
    \/ \E b \in Names : Merge(b, MaxCommits)

SpecNames == InitRepo /\ [][NextNames]_vars

\* C16: in every state reached from init by add, commit, branch create, branch
\* delete, checkout and merge, with flat and hierarchical branch names, the branch
\* HEAD is symbolic to lacks its ref file only if no commit has ever been created.
HeadBranchIsBacked ==
    (getHEAD(HEAD, refs).type = "branch" /\ getHEAD(HEAD, refs).hash = <<>>)
    => NumCommits(objects) = 0

----------------------------------------------------------------------------
(* The merge base, over the histories that merges and checkouts build on    *)
(* diverged branches whose sides differ in the file x alone.                *)

HistorySides == {m \in SideMaps : DOMAIN m = Paths /\ m[P_dy] = C_B}

InitHistory ==
    \E base \in BaseMaps, ours \in HistorySides, theirs \in HistorySides :
        \E repo \in {Diverged(base, ours, theirs)} :
            /\ objects = repo.objects
            /\ index = repo.index
            /\ refs = repo.refs
            /\ HEAD = repo.HEAD
            /\ work = repo.work
            /\ result = repo.result

SpecHistory == InitHistory /\ [][NextMerge]_vars

\* the commits of the store
Commits == {h \in DOMAIN objects : IsCommitData(objects[h].data)}

\* every commit's set of parents
ParentMap == [h \in Commits |-> ParentsOf(h, objects)]

\* h and all that parent links lead to from h, read from the parent map
RECURSIVE AncestorsIn(_, _, _)
AncestorsIn(parents, frontier, seen) ==
    IF frontier \subseteq seen THEN seen
    ELSE AncestorsIn(parents,
                     UNION {parents[h] : h \in (frontier \ seen) \cap DOMAIN parents},
                     seen \cup frontier)

\* the merge base of a and b is a commit and is an ancestor of both
BaseOfBoth(parents, a, b, base) ==
    /\ base # <<>>
    /\ base \in AncestorsIn(parents, {a}, {})
    /\ base \in AncestorsIn(parents, {b}, {})

\* C18: for any two commits that have a common ancestor, a commit counting as its
\* own ancestor, findCommonAncestor returns a commit, never null, and that commit is
\* an ancestor of both.
MergeBaseIsCommonAncestor ==
    \E parents \in {ParentMap} :
        \A a \in Commits, b \in Commits :
            (AncestorsIn(parents, {a}, {}) \cap AncestorsIn(parents, {b}, {}) # {})
            => BaseOfBoth(parents, a, b, findCommonAncestor(a, b, objects))

\* A merge commit with two parents stands in the store, and two commits of which
\* neither is the other's ancestor have a third commit as their merge base.
MergeBaseIsCommonAncestorWitness ==
    /\ Cardinality(Commits) = MaxMerged
    /\ \E m \in Commits : Cardinality(ParentsOf(m, objects)) = 2
    /\ \E a \in Commits, b \in Commits :
          /\ ~Reaches(a, b, objects)
          /\ ~Reaches(b, a, objects)
          /\ findCommonAncestor(a, b, objects) \in Commits \ {a, b}

----------------------------------------------------------------------------
(* The tree builder and the flattener on their own: an index map is drawn,  *)
(* `relic commit`'s buildTreeFromIndex writes its trees, and the report     *)
(* names the root tree.                                                     *)

T_a == <<97>>                               \* "a"
T_b == <<98>>                               \* "b"
T_B == <<66>>                               \* "B"
T_ba == <<98, SLASH, 97>>                   \* "b/a"
T_fa == S_files \o <<SLASH, 97>>            \* "__files__/a"
TreePaths == {T_a, T_b, T_B, T_ba, T_fa}

\* the digests of two blobs
TreeDigests == {hashObject(C_B, S_blob).hash, hashObject(C_C, S_blob).hash}

\* the index maps: some of the paths, each with a digest and a mode
TreeMaps ==
    UNION {[S -> [hash : TreeDigests, mode : {FILE_MODE, EXEC_MODE}]] :
              S \in SUBSET TreePaths \ {{}}}

InitTree ==
    /\ objects = NoMap
    /\ index \in TreeMaps
    /\ refs = NoMap
    /\ HEAD = HeadOf(DEFAULT_BRANCH)
    /\ work = NoMap
    /\ result = Silent

\* steps 1 and 2 of commitCommand
WriteTree ==
    /\ result = Silent
    /\ \E root \in {buildTreeFromIndex(index, objects)} :
          /\ objects' = root.store
          /\ result' = Report("write-tree", IF root.ok THEN "written" ELSE "error",
                              {}, root.hash)
    /\ UNCHANGED <<index, refs, HEAD, work>>

SpecTree == InitTree /\ [][WriteTree]_vars

\* the leaf modes of a tree, by path
RECURSIVE LeafModes(_, _, _)
LeafModes(treeHash, prefix, store) ==
    LET entries == parseTree(readObject(treeHash, store).content)
        Under(i) == IF entries[i].mode = DIR_MODE
                    THEN LeafModes(entries[i].hash, prefix \o entries[i].name \o <<SLASH>>, store)
                    ELSE (prefix \o entries[i].name) :> entries[i].mode
        Merged[i \in 0..Len(entries)] == IF i = 0 THEN NoMap ELSE Assign(Merged[i - 1], Under(i))
    IN Merged[Len(entries)]

\* C19: for any index map M, the root tree built from M is written, flattening it
\* returns exactly the paths of M, each with the digest M gives it, and the leaves of
\* the tree carry the modes of M.
BuildFlattenInverse ==
    result.op = "write-tree"
    => /\ result.outcome = "written"
       /\ flattenTree(result.arg, <<>>, objects) = [ok |-> TRUE, files |-> HashesOf(index)]
       /\ LeafModes(result.arg, <<>>, objects) = [p \in DOMAIN index |-> index[p].mode]

\* the entry list reordered by a permutation of its positions
Permuted(E, perm) == [i \in 1..Len(E) |-> E[perm[i]]]

\* C20: for the entry list E that the builder handed to createTree and any
\* permutation of E, the two trees have byte-identical content and the same digest.
TreeOrderCanonical ==
    result.op = "write-tree"
    => \E E \in {groupEntries(index, objects).treeEntries} :
          \A perm \in Permutations(1..Len(E)) :
              createTree(Permuted(E, perm)) = createTree(E)

\* -1, 0 or 1 as the bytes of a are before, equal to or after the bytes of b
RECURSIVE ByteCompare(_, _, _)
ByteCompare(a, b, i) ==
    IF i > Len(a) /\ i > Len(b) THEN 0
    ELSE IF i > Len(a) THEN -1
    ELSE IF i > Len(b) THEN 1
    ELSE IF a[i] < b[i] THEN -1
    ELSE IF a[i] > b[i] THEN 1
    ELSE ByteCompare(a, b, i + 1)

\* the trees of the store
TreesOf(store) == {h \in DOMAIN store : readObject(h, store).type = S_tree}

\* C21: the entries of every tree the builder has written are in ascending order of
\* name under byte-wise comparison of the names.
TreeEntriesInByteOrder ==
    \A h \in TreesOf(objects) :
        \E entries \in {parseTree(readObject(h, objects).content)} :
            \A i \in 1..(Len(entries) - 1) :
                ByteCompare(entries[i].name, entries[i + 1].name, 1) <= 0

\* `parsed` holds the entries of E, each once, with names that never descend in the
\* order createTree sorts by
SortedEntriesOf(E, parsed) ==
    /\ \E perm \in Permutations(1..Len(E)) : parsed = Permuted(E, perm)
    /\ \A i \in 1..(Len(parsed) - 1) :
          localeCompare(parsed[i].name, parsed[i + 1].name) <= 0

----------------------------------------------------------------------------
(* Commit messages: `relic commit -m <message>` with messages that carry    *)
(* white space at their ends.                                               *)

M_lead == <<SP, 109>>           \* " m"
M_trail == <<109, SP>>          \* "m "
M_newline == <<109, LF>>        \* "m\n"
Messages == {M_msg, M_lead, M_trail, M_newline}

NextMessages ==
    \/ \E c \in {C_B, C_C} : WriteFile(P_x, c)
    \/ Add(P_x)
    \/ \E message \in Messages : Commit(message, MaxCommits)

SpecMessages == InitRepo /\ [][NextMessages]_vars

\* `parsed` is the commit built over `tree` and the commit HEAD resolved to, with the
\* author's line on both author and committer and the message as it was given
ParsedAsBuilt(parsed, tree, message) ==
    /\ parsed.tree = tree
    /\ parsed.parents = IF HeadCommit = <<>> THEN <<>> ELSE <<HeadCommit>>
    /\ parsed.author = AUTHOR \o <<SP>> \o Decimal(Now) \o <<SP>>
                              \o Timezone(TIMEZONE_OFFSET_MINUTES)
    /\ parsed.committer = parsed.author
    /\ parsed.message = message

\* C23: parsing the commit that `relic commit` builds returns the tree digest, the
\* parent list, the author and the committer it was built with, and the message as
\* given, the one newline that the build appends removed and nothing else.
CommitRoundTrip ==
    \A message \in Messages :
        DOMAIN index # {}
        => \E after \in {commitCommand(Repo, message)} :
              ParsedAsBuilt(
                  parseCommit(readObject(getHEAD(HEAD, after.refs).hash, after.objects).content),
                  buildTreeFromIndex(index, objects).hash, message)

----------------------------------------------------------------------------
(* hashObject: determinism and type separation, over the objects the store  *)
(* round trip writes.                                                       *)

TypeSeparation ==
    \A content \in StoreContents :
        \E b \in {hashObject(content, S_blob)}, t \in {hashObject(content, S_tree)} :
            /\ b.store # t.store
            /\ b.hash # t.hash
            /\ b.hash \in DOMAIN objects => readObject(b.hash, objects).type = S_blob
            /\ t.hash \in DOMAIN objects => readObject(t.hash, objects).type = S_tree

\* A blob and a tree of the same two bytes are both stored.
TypeSeparationWitness ==
    /\ hashObject(<<49, NUL>>, S_blob).hash \in DOMAIN objects
    /\ hashObject(<<49, NUL>>, S_tree).hash \in DOMAIN objects

----------------------------------------------------------------------------
(* hashObject on strings and on buffers: strings that hold U+FFFD, a         *)
(* character of three bytes, are hashed and written next to the buffers of   *)
(* their UTF-8 encodings.                                                   *)

\* The mutant takes the characters of a string for its bytes.
toBuffer_codeUnits(content, isBuffer) == content

\* Buffer.isBuffer(content) ? content : Buffer.from(content)
toBuffer(content, isBuffer) == IF isBuffer THEN content ELSE Utf8Encode(content)

\* hashObject of a string (isBuffer = FALSE) or of a Buffer
hashContent(content, isBuffer, type) == hashObject(toBuffer(content, isBuffer), type)

FrameChars == {49, REPLACEMENT_CHAR}

FrameStrings == SeqsUpTo(FrameChars, MaxLen)

HashAndWrite(type, content, isBuffer) ==
    \E h \in {hashContent(content, isBuffer, type)} :
        /\ Cardinality(DOMAIN objects) < MaxObjects \/ h.hash \in DOMAIN objects
        /\ objects' = writeObject(h.hash, h.store, objects)
        /\ UNCHANGED <<index, refs, HEAD, work, result>>

NextFrame ==
    \/ \E type \in ObjectTypes, str \in FrameStrings : HashAndWrite(type, str, FALSE)
    \/ \E type \in ObjectTypes, str \in FrameStrings : HashAndWrite(type, Utf8Encode(str), TRUE)

SpecFrame == InitRepo /\ [][NextFrame]_vars

\* the number of bytes in the UTF-8 encoding of a string over FrameChars
ByteLength(str) == Len(str) + 2 * Cardinality({i \in 1..Len(str) : str[i] = REPLACEMENT_CHAR})

\* `store` is `type`, one space, the decimal of `size`, one NUL, then `bytes`
Framed(store, type, size, bytes) ==
    \E nul \in {IndexOf(store, NUL, 1)} :
        /\ nul > Len(type) + 2
        /\ SubSeq(store, 1, Len(type)) = type
        /\ store[Len(type) + 1] = SP
        /\ \E digits \in {SubSeq(store, Len(type) + 2, nul - 1)} :
              /\ \A i \in 1..Len(digits) : IsDigit(digits[i])
              /\ Len(digits) > 1 => digits[1] # 48
              /\ ParseDigits(digits, 0) = size
        /\ Slice(store, nul + 1) = bytes
        /\ Len(bytes) = size
        /\ \A i \in 1..Len(bytes) : bytes[i] \in 0..255

\* C26: the framed buffer of a content is the type, one space, the decimal length of
\* the content in bytes of UTF-8, one NUL and the content; a string and the buffer of
\* its UTF-8 encoding give the same framed buffer and the same digest, and that
\* framed buffer is what the store holds.
ByteLengthFraming ==
    \A type \in ObjectTypes, str \in FrameStrings :
        \E s \in {hashContent(str, FALSE, type)}, b \in {hashContent(Utf8Encode(str), TRUE, type)} :
            /\ s = b
            /\ Framed(s.store, type, ByteLength(str), Utf8Encode(str))
            /\ s.hash \in DOMAIN objects
               => decompress(objects[s.hash].data) = [ok |-> TRUE, data |-> s.store]

\* A blob of two characters and four bytes is stored.
ByteLengthFramingWitness ==
    \E h \in {hashContent(<<REPLACEMENT_CHAR, 49>>, FALSE, S_blob)} :
        /\ h.hash \in DOMAIN objects
        /\ Len(readObject(h.hash, objects).content) = 4

----------------------------------------------------------------------------
(* Stored files altered after they were written: a unit of the file is      *)
(* changed, or the file is replaced by the compression of other bytes.      *)

TamperTypes == {S_blob, S_tree}

TamperContents == {<<>>, <<49>>}

\* bytes that are no framed buffer: no NUL, and a size that is not the length
Malformed == {S_blob \o <<SP, 49>>, S_blob \o <<SP, 53, NUL, 49>>}

\* the stored bytes are the compression of the framed buffer that hashes to h
Intact(h, store) ==
    \E z \in {decompress(store[h].data)} : z.ok /\ Sha256Hex(z.data) = h

\* the file with the unit at position i changed
Flipped(data, i) == [data EXCEPT ![i] = (@ + 1) % 256]

\* what an alteration can leave in the file of an object
Alterations(data) ==
    {Flipped(data, i) : i \in DOMAIN data}
        \cup {compress(hashObject(content, type).store) :
                  type \in TamperTypes, content \in TamperContents}
        \cup {compress(raw) : raw \in Malformed}

TamperWrite(type, content) ==
    \E h \in {hashObject(content, type)} :
        /\ Cardinality(DOMAIN objects) < MaxObjects
        /\ h.hash \notin DOMAIN objects
        /\ objects' = writeObject(h.hash, h.store, objects)
        /\ UNCHANGED <<index, refs, HEAD, work, result>>

\* the file of an intact object is altered
Tamper(h, data) ==
    /\ h \in DOMAIN objects
    /\ Intact(h, objects)
    /\ data # objects[h].data
    /\ objects' = [objects EXCEPT ![h].data = data]
    /\ UNCHANGED <<index, refs, HEAD, work, result>>

NextTamper ==
    \/ \E type \in TamperTypes, content \in TamperContents : TamperWrite(type, content)
    \/ \E h \in DOMAIN objects : \E data \in Alterations(objects[h].data) : Tamper(h, data)

SpecTamper == InitRepo /\ [][NextTamper]_vars

\* C27: when the file of a digest no longer holds the framed buffer that hashes to
\* the digest, a read of the digest fails with ObjectCorrupted; a read that succeeds
\* returns a type and a content whose framed digest is the digest asked for.
ReadDetectsAlteration ==
    \A h \in DOMAIN objects :
        \E o \in {readObject(h, objects)} :
            /\ ~Intact(h, objects) => (~o.ok /\ o.err = "ObjectCorrupted")
            /\ o.ok => hashObject(o.content, o.type).hash = h

----------------------------------------------------------------------------
(* catFile.js: statusCommand, on a repository with a file named "x" and a    *)
(* file named "toString".                                                   *)

S_toString == <<116, 111, 83, 116, 114, 105, 110, 103>>      \* "toString"
S_valueOf == <<118, 97, 108, 117, 101, 79, 102>>             \* "valueOf"

\* keys that every object made by {} or by JSON.parse inherits from Object.prototype
ObjectPrototypeKeys == {S_toString, S_valueOf}

\* obj[key] is truthy: an own key of a map of digests or entries, or an inherited one
Truthy(obj, key) == key \in DOMAIN obj \/ key \in ObjectPrototypeKeys

\* catFile.js: getCommittedFiles
getCommittedFiles(repo) ==
    LET head == getHEAD(repo.HEAD, repo.refs) IN
    IF head.hash = <<>> THEN [ok |-> TRUE, files |-> NoMap]
    ELSE CommitFiles(head.hash, repo.objects)

\* statusCommand's three comparisons on the committed, staged and working files
classify(committedFiles, stagedFiles, wk) ==
    [staged |->
        [added |-> {f \in DOMAIN stagedFiles : ~Truthy(committedFiles, f)},
         modified |-> {f \in DOMAIN stagedFiles :
                          /\ Truthy(committedFiles, f)
                          /\ f \in DOMAIN committedFiles => committedFiles[f] # stagedFiles[f].hash},
         deleted |-> {f \in DOMAIN committedFiles : ~Truthy(stagedFiles, f)}],
     unstaged |->
        [modified |-> {f \in DOMAIN stagedFiles :
                          /\ f \in DOMAIN wk
                          /\ hashObject(wk[f], S_blob).hash # stagedFiles[f].hash},
         deleted |-> {f \in DOMAIN stagedFiles : f \notin DOMAIN wk}],
     untracked |-> {f \in DOMAIN wk : ~Truthy(stagedFiles, f)}]

\* the paths statusCommand prints
Listed(status) ==
    status.staged.added \cup status.staged.modified \cup status.staged.deleted
        \cup status.unstaged.modified \cup status.unstaged.deleted \cup status.untracked

\* catFile.js: statusCommand; the lists it prints
statusCommand(repo) ==
    classify(getCommittedFiles(repo).files, repo.index, repo.work)

StatusPaths == {P_x, S_toString}

Status ==
    \E status \in {statusCommand(Repo)} :
        /\ result' = Report("status",
                            IF Listed(status) = {} THEN "nothing to commit, working tree clean"
                            ELSE "changes",
                            Listed(status), <<>>)
        /\ UNCHANGED <<objects, index, refs, HEAD, work>>

Unstage(filePath) == \E after \in {removeFromIndex(Repo, filePath)} : Becomes(after)

NextStatus ==
    \/ \E p \in StatusPaths, c \in {C_B, C_C} : WriteFile(p, c)
    \/ \E p \in StatusPaths : DeleteFile(p)
    \/ \E p \in StatusPaths : Add(p)
    \/ \E p \in StatusPaths : Unstage(p)
    \/ Commit(M_msg, MaxCommits)
    \/ Status

SpecStatus == InitRepo /\ [][NextStatus]_vars

\* the flat map of the commit HEAD resolves to; empty before the first commit
HeadFiles == IF HeadCommit = <<>> THEN NoMap ELSE CommitFiles(HeadCommit, objects).files

\* the six lists are the six sets of the definition of status
Classified(status, P) ==
    /\ status.staged.added \cap P = {p \in P : p \in DOMAIN index /\ p \notin DOMAIN HeadFiles}
    /\ status.staged.modified \cap P =
           {p \in P : p \in DOMAIN index /\ p \in DOMAIN HeadFiles /\ index[p].hash # HeadFiles[p]}
    /\ status.staged.deleted \cap P = {p \in P : p \in DOMAIN HeadFiles /\ p \notin DOMAIN index}
    /\ status.unstaged.deleted \cap P = {p \in P : p \in DOMAIN index /\ p \notin DOMAIN work}
    /\ status.unstaged.modified \cap P =
           {p \in P : p \in DOMAIN index /\ p \in DOMAIN work
                         /\ hashObject(work[p], S_blob).hash # index[p].hash}
    /\ status.untracked \cap P = {p \in P : p \in DOMAIN work /\ p \notin DOMAIN index}

\* C28: status lists a path as staged-added iff it is in the index and not in HEAD's
\* flat map, staged-modified iff in both with different digests, staged-deleted iff
\* in HEAD's map and not in the index, unstaged-deleted iff indexed with no working
\* file, unstaged-modified iff indexed with a working file of another digest, and
\* untracked iff a working file that is not in the index.
StatusClassifies == Classified(statusCommand(Repo), StatusPaths)

----------------------------------------------------------------------------
(* The merge base over all parent links. *)

\* base is a common ancestor of a and b, and no other common ancestor descends from it
MostRecentCommon(parents, common, base) ==
    /\ base \in common
    /\ \A c \in common \ {base} : base \notin AncestorsIn(parents, {c}, {})

\* C29: findCommonAncestor follows every parent link: for two commits with a common
\* ancestor it returns a common ancestor from which no other common ancestor
\* descends; with a branch merged into main by a merge commit, the base of main and
\* the branch is the tip the branch had when it was merged.
MergeBaseIsMostRecent ==
    \E parents \in {ParentMap} :
        \A a \in Commits, b \in Commits :
            \E common \in {AncestorsIn(parents, {a}, {}) \cap AncestorsIn(parents, {b}, {})} :
                common # {} => MostRecentCommon(parents, common, findCommonAncestor(a, b, objects))

----------------------------------------------------------------------------
(* The working tree after a merge. *)

\* no file is left at a path of the index `before` that `files` lacks, and every
\* path of `files` has a working file with the bytes of its blob
WorkingTreeIs(files, before, after) ==
    /\ \A p \in DOMAIN before \ DOMAIN files : p \notin DOMAIN after.work
    /\ \A p \in DOMAIN files :
          /\ p \in DOMAIN after.work
          /\ after.work[p] = BlobBytes(files[p], after.objects)

\* C30: after a merge that succeeds, by fast-forward or by a three-way merge without
\* a conflict, no working file is left at a path that was in the index before the
\* merge and is not in the flat map of the resulting commit, and every path of that
\* map has a working file with the bytes of its blob.
MergeSyncsWorkingTree ==
    \A b \in Branches :
        \E after \in {mergeCommand(Repo, b)} :
            after.result.outcome \in {"fast-forward", "merged"}
            => WorkingTreeIs(CommitFiles(getHEAD(after.HEAD, after.refs).hash, after.objects).files,
                             index, after)

----------------------------------------------------------------------------
(* add.js with the paths of node's path module: `relic add <file>` run at    *)
(* the repository root /r or in its directory /r/d, on files below the root  *)
(* and on the file /o outside it.                                           *)

S_dot == <<46>>                 \* "."
S_dotdot == <<46, 46>>          \* ".."
REPO_ROOT == <<47, 114>>        \* "/r"
SUB_DIR == <<47, 114, 47, 100>> \* "/r/d"
OUTSIDE_FILE == <<47, 111>>     \* "/o"

\* the segments of a path with "", "." and ".." resolved
RECURSIVE normalizeSegments(_, _, _)
normalizeSegments(segs, i, acc) ==
    IF i > Len(segs) THEN acc
    ELSE IF segs[i] = <<>> \/ segs[i] = S_dot THEN normalizeSegments(segs, i + 1, acc)
    ELSE IF segs[i] = S_dotdot
    THEN normalizeSegments(segs, i + 1,
                           IF Len(acc) = 0 THEN acc ELSE SubSeq(acc, 1, Len(acc) - 1))
    ELSE normalizeSegments(segs, i + 1, Append(acc, segs[i]))

\* path.resolve(filePath) in the directory cwd
pathResolve(cwd, filePath) ==
    LET full == IF Len(filePath) > 0 /\ filePath[1] = SLASH THEN filePath
                ELSE cwd \o <<SLASH>> \o filePath
    IN <<SLASH>> \o Join(normalizeSegments(Split(full, SLASH), 1, <<>>), SLASH)

\* the number of leading segments that a and b share
RECURSIVE commonSegments(_, _, _)
commonSegments(a, b, n) ==
    IF n < Len(a) /\ n < Len(b) /\ a[n + 1] = b[n + 1] THEN commonSegments(a, b, n + 1) ELSE n

\* path.relative(from, to) on absolute paths
pathRelative(from, to) ==
    LET a == normalizeSegments(Split(from, SLASH), 1, <<>>)
        b == normalizeSegments(Split(to, SLASH), 1, <<>>)
        n == commonSegments(a, b, 0)
    IN Join([i \in 1..(Len(a) - n) |-> S_dotdot] \o SubSeq(b, n + 1, Len(b)), SLASH)

\* pathUtils.js: relativePath
relativePath(repoRoot, filePath) == normalizePath(pathRelative(repoRoot, filePath))

\* fs.existsSync(absPath): a working file, or the file outside the repository
existsSync(absPath, wk) ==
    absPath = OUTSIDE_FILE \/ pathRelative(REPO_ROOT, absPath) \in DOMAIN wk

\* fs.readFileSync(absPath)
readFileSync(absPath, wk) ==
    IF absPath = OUTSIDE_FILE THEN C_B ELSE wk[pathRelative(REPO_ROOT, absPath)]

\* add.js: addSingleFile, run in the directory cwd
addSingleFileFrom(repo, cwd, filePath) ==
    LET absPath == pathResolve(cwd, filePath) IN
    IF ~existsSync(absPath, repo.work) THEN [repo EXCEPT !.result = Silent]
    ELSE stage(repo, relativePath(REPO_ROOT, absPath), createBlob(readFileSync(absPath, repo.work)))

\* the <file> arguments: "x", "./x", "d/y", "../x", "y", "../o", "/o"
AddArguments ==
    {P_x, <<46, 47, 120>>, P_dy, <<46, 46, 47, 120>>, <<121>>, <<46, 46, 47, 111>>, OUTSIDE_FILE}

AddFrom(cwd, filePath) == \E after \in {addSingleFileFrom(Repo, cwd, filePath)} : Becomes(after)

NextPaths ==
    \/ \E e \in Edits : WriteFile(e[1], e[2])
    \/ \E p \in Paths : DeleteFile(p)
    \/ \E cwd \in {REPO_ROOT, SUB_DIR}, filePath \in AddArguments : AddFrom(cwd, filePath)
    \/ Commit(M_msg, MaxCommits)

SpecPaths == InitRepo /\ [][NextPaths]_vars

\* a forward-slash path relative to the root: no leading slash, no empty, "." or
\* ".." segment, no backslash
RepoRelative(p) ==
    /\ Len(p) > 0
    /\ \A i \in 1..Len(p) : p[i] # 92
    /\ \E segs \in {Split(p, SLASH)} :
          \A i \in 1..Len(segs) : segs[i] \notin {<<>>, S_dot, S_dotdot}

\* C31: in every reachable state every key of the index is a forward-slash path
\* relative to the repository root, with no leading slash and no "." or ".."
\* segment, whatever file `relic add` was given, a file outside the root included.
IndexKeysAreRepoPaths == \A p \in DOMAIN index : RepoRelative(p)

----------------------------------------------------------------------------
(* writeObject step by step: fs.writeFileSync opens the target file, which   *)
(* creates it empty, and then writes the bytes; the process can die between  *)
(* any two steps, and readers read the file at any moment.  `result` holds   *)
(* the writer's position: the digest and the bytes it has to write.          *)

Writing == result.op = "writeObject" /\ result.outcome = "writing"

\* the bytes the writer has to write: compress(storeBuffer)
Pending == CHOOSE data \in result.paths : TRUE

\* writeObject up to the open of the target file; the call returns at once when
\* the file exists
WriteOpen(type, content) ==
    \E h \in {hashObject(content, type)} :
        /\ ~Writing
        /\ IF objectExists(h.hash, objects)
           THEN /\ objects' = objects
                /\ result' = Report("writeObject", "returned", {}, h.hash)
           ELSE /\ Cardinality(DOMAIN objects) < MaxObjects
                /\ objects' = Put(objects, h.hash, [data |-> <<>>, writes |-> 1])
                /\ result' = Report("writeObject", "writing", {compress(h.store)}, h.hash)
        /\ UNCHANGED <<index, refs, HEAD, work>>

\* one write of fs.writeFileSync's loop: half of the bytes, then the rest
WriteBytes ==
    /\ Writing
    /\ \E written \in {Len(objects[result.arg].data)}, all \in {Pending} :
          \E upTo \in {IF written = 0 THEN Len(all) \div 2 ELSE Len(all)} :
              /\ objects' = [objects EXCEPT ![result.arg].data = SubSeq(all, 1, upTo)]
              /\ result' = IF upTo = Len(all)
                           THEN Report("writeObject", "returned", {}, result.arg)
                           ELSE result
    /\ UNCHANGED <<index, refs, HEAD, work>>

\* the process dies inside writeObject
Crash ==
    /\ Writing
    /\ result' = Report("writeObject", "crashed", {}, result.arg)
    /\ UNCHANGED <<objects, index, refs, HEAD, work>>

NextCrash ==
    \/ \E type \in TamperTypes, content \in TamperContents : WriteOpen(type, content)
    \/ WriteBytes
    \/ Crash

SpecCrash == InitRepo /\ [][NextCrash]_vars

\* the file of h holds the whole object: a read returns the type and content that
\* hash to h
Complete(h, store) ==
    \E o \in {readObject(h, store)} : o.ok /\ hashObject(o.content, o.type).hash = h

\* C32: with a crash possible at any point inside writeObject and readers running
\* next to a writer, the file of a digest is at every moment absent or complete and
\* valid, and a writeObject that returns, after a crash too, leaves an object that
\* readObject returns.
WriteIsAtomic ==
    /\ \A h \in DOMAIN objects : Complete(h, objects)
    /\ (result.op = "writeObject" /\ result.outcome = "returned")
       => (result.arg \in DOMAIN objects /\ Complete(result.arg, objects))

----------------------------------------------------------------------------
(* The ancestor walks on a corrupted store: the file of a commit is replaced *)
(* by a commit that names another stored commit as its parent, which can     *)
(* close a cycle of parent links.                                           *)

\* a `while (current)` loop over first parents that keeps no visited set and leaves
\* only at null, at a commit of stopAt or at a read that throws: TRUE when it comes
\* back to a commit it has been at, and so never ends
RECURSIVE loopsForever(_, _, _, _)
loopsForever(current, stopAt, seen, store) ==
    IF current = <<>> \/ current \in stopAt THEN FALSE
    ELSE IF current \in seen THEN TRUE
    ELSE LET next == FirstParent(current, store) IN
         IF ~next.ok THEN FALSE
         ELSE loopsForever(next.hash, stopAt, seen \cup {current}, store)

\* how a call of findCommonAncestor ends: "found", "null", or "no return" when one
\* of its two loops never ends
findCommonAncestorEnds(hash1, hash2, store) ==
    IF loopsForever(hash1, {}, {}, store) THEN "no return"
    ELSE IF loopsForever(hash2, collectAncestors(hash1, {}, store, Cardinality(DOMAIN store) + 1),
                         {}, store)
    THEN "no return"
    ELSE IF findCommonAncestor(hash1, hash2, store) = <<>> THEN "null"
    ELSE "found"

\* how a call of isAncestor ends: it returns true or false
isAncestorEnds(potentialAncestor, commitHash, store) ==
    IF isAncestor(potentialAncestor, commitHash, store) THEN "true" ELSE "false"

\* the file of commit h is replaced by a commit of the same tree with parent p
Corrupt(h, p) ==
    /\ h \in Commits
    /\ p \in Commits
    /\ \E new \in {createCommit(parseCommit(readObject(h, objects).content).tree, p,
                                M_msg, AUTHOR, Now)} :
          /\ compress(new.store) # objects[h].data
          /\ objects' = [objects EXCEPT ![h].data = compress(new.store)]
    /\ result' = Silent
    /\ UNCHANGED <<index, refs, HEAD, work>>

WalkBase(a, b) ==
    /\ a \in Commits
    /\ b \in Commits
    /\ result' = Report("findCommonAncestor", findCommonAncestorEnds(a, b, objects), {}, a \o b)
    /\ UNCHANGED <<objects, index, refs, HEAD, work>>

WalkAncestor(a, b) ==
    /\ a \in Commits
    /\ b \in Commits
    /\ result' = Report("isAncestor", isAncestorEnds(a, b, objects), {}, a \o b)
    /\ UNCHANGED <<objects, index, refs, HEAD, work>>

NextCycle ==
    \/ \E c \in {C_B, C_C} : WriteFile(P_x, c)
    \/ Add(P_x)
    \/ Commit(M_msg, MaxCommits)
    \/ \E h \in DOMAIN objects, p \in DOMAIN objects : Corrupt(h, p)
    \/ \E a \in DOMAIN objects, b \in DOMAIN objects : WalkBase(a, b)
    \/ \E a \in DOMAIN objects, b \in DOMAIN objects : WalkAncestor(a, b)

SpecCycle == InitRepo /\ [][NextCycle]_vars

\* parent links lead from c back to c
OnCycle(c) == c \in ReachableFrom(ParentsOf(c, objects), {}, objects)

\* the walk from c over parent links comes to a cycle
MeetsCycle(c) == \E d \in ReachableFrom({c}, {}, objects) : OnCycle(d)

\* C33: isAncestor and findCommonAncestor end on every parent relation, one made
\* cyclic by corruption included, and a walk that meets a cycle ends with
\* ObjectCorrupted, not with an ordinary answer.
WalksEndOnCycles ==
    \A a \in Commits, b \in Commits :
        /\ findCommonAncestorEnds(a, b, objects) # "no return"
        /\ MeetsCycle(a) => findCommonAncestorEnds(a, b, objects) = "ObjectCorrupted"
        /\ (MeetsCycle(b) /\ ~Reaches(b, a, objects))
           => isAncestorEnds(a, b, objects) = "ObjectCorrupted"

----------------------------------------------------------------------------
(* parseTree on every buffer: a tree object of any bytes is in the store,    *)
(* and its content is parsed.                                               *)

MaxTreeLen == 6     \* longest tree content parsed: one entry of one-byte mode and name

TreeBytes == {49, SP, NUL}

TreeContents == SeqsUpTo(TreeBytes, MaxTreeLen)

\* how a call of parseTree ends: it returns its entries, or its loop comes back to
\* an offset it has been at and never ends; no statement of parseTree throws
parseTreeEnds(content) ==
    IF parseTreeFrom(content, 0, <<>>, Len(content) + 1).ended THEN "returned" ELSE "no return"

TreeWrite(content) ==
    \E h \in {hashObject(content, S_tree)} :
        /\ objects = NoMap
        /\ objects' = writeObject(h.hash, h.store, objects)
        /\ result' = Silent
        /\ UNCHANGED <<index, refs, HEAD, work>>

TreeParse(h) ==
    /\ h \in TreesOf(objects)
    /\ result' = Report("parseTree", parseTreeEnds(readObject(h, objects).content), {}, h)
    /\ UNCHANGED <<objects, index, refs, HEAD, work>>

NextParse ==
    \/ \E content \in TreeContents : TreeWrite(content)
    \/ \E h \in DOMAIN objects : TreeParse(h)

SpecParse == InitRepo /\ [][NextParse]_vars

\* content is a concatenation of complete entries: mode, space, name, NUL and a
\* digest of DigestUnits units
RECURSIVE CompleteEntries(_)
CompleteEntries(content) ==
    \/ Len(content) = 0
    \/ \E sp \in {IndexOf(content, SP, 1)} :
          /\ sp > 0
          /\ \E nul \in {IndexOf(content, NUL, sp + 1)} :
                /\ nul > 0
                /\ \A i \in 1..(sp - 1) : content[i] # NUL
                /\ Len(content) >= nul + DigestUnits
                /\ CompleteEntries(Slice(content, nul + DigestUnits + 1))

\* C34: for every buffer parseTree ends, and for a buffer that is no concatenation
\* of complete entries (it stops before a space, before a NUL or inside a digest)
\* it fails with ObjectCorrupted and returns no entry.
ParseTreeRejectsTruncation ==
    \A h \in TreesOf(objects) :
        \E content \in {readObject(h, objects).content} :
            /\ parseTreeEnds(content) # "no return"
            /\ ~CompleteEntries(content) => parseTreeEnds(content) = "ObjectCorrupted"


----------------------------------------------------------------------------
(* Referential integrity: what a ref, HEAD, a commit, a tree and the index  *)
(* name is in the store.                                                    *)

\* the object h is stored and reads as an object of the type
Present(h, type, store) == h \in DOMAIN store /\ readObject(h, store).type = type

\* the tree and the parents a stored commit names are stored
CommitIntact(h, store) ==
    \E commit \in {parseCommit(readObject(h, store).content)} :
        /\ Present(commit.tree, S_tree, store)
        /\ \A i \in DOMAIN commit.parents : Present(commit.parents[i], S_commit, store)

\* the entries a stored tree names are stored
TreeIntact(h, store) ==
    \E entries \in {parseTree(readObject(h, store).content)} :
        \A i \in DOMAIN entries : entries[i].hash \in DOMAIN store

\* HEAD names a stored commit; before the first commit it names a branch without a file
HeadResolves(repo) ==
    \E head \in {getHEAD(repo.HEAD, repo.refs)} :
        IF head.hash = <<>> THEN NumCommits(repo.objects) = 0
        ELSE Present(head.hash, S_commit, repo.objects)

Integrity(repo) ==
    /\ \A b \in DOMAIN repo.refs : Present(Trim(repo.refs[b]), S_commit, repo.objects)
    /\ HeadResolves(repo)
    /\ \A h \in DOMAIN repo.objects :
        /\ readObject(h, repo.objects).type = S_commit => CommitIntact(h, repo.objects)
        /\ readObject(h, repo.objects).type = S_tree => TreeIntact(h, repo.objects)
    /\ \A p \in DOMAIN repo.index : Present(repo.index[p].hash, S_blob, repo.objects)

\* C35: in every reachable state every branch ref and HEAD resolve to a stored commit
\* (HEAD may name a branch without a file only before the first commit), every stored
\* commit's tree and parents are stored, every stored tree's entries are stored, and
\* every digest in the index is a stored blob.
ReferentialIntegrity == Integrity(Repo)

----------------------------------------------------------------------------
(* The branch files over a commit and over a merge.                         *)

\* between two repositories every branch file keeps its bytes, but for the file of
\* the branch HEAD is symbolic to, which may come to name a descendant of the commit
\* it named
TipMovesForward(before, after) ==
    \E head \in {getHEAD(before.HEAD, before.refs)} :
        \A f \in DOMAIN before.refs \cup DOMAIN after.refs :
            \/ /\ f \in DOMAIN before.refs
               /\ f \in DOMAIN after.refs
               /\ after.refs[f] = before.refs[f]
            \/ /\ head.type = "branch"
               /\ head.ref = RefPath(f)
               /\ f \in DOMAIN after.refs
               /\ f \in DOMAIN before.refs
                  => Reaches(Trim(after.refs[f]), Trim(before.refs[f]), after.objects)

\* C36: a commit and a merge change at most the ref of the branch HEAD is symbolic
\* to, and only to a commit from which the ref's previous commit is reachable by
\* parent links; every other branch ref keeps its value.
OnlyHeadBranchMoves ==
    /\ TipMovesForward(Repo, commitCommand(Repo, M_msg))
    /\ \A b \in Branches : TipMovesForward(Repo, mergeCommand(Repo, b))

\* a merge commit or a fast-forward is at hand that moves the tip
\* of HEAD's branch while the other branch exists, and a commit that moves it
OnlyHeadBranchMovesWitness ==
    /\ Cardinality(DOMAIN refs) = 2
    /\ \E b \in Branches : \E after \in {mergeCommand(Repo, b)} :
        /\ after.result.outcome \in {"merged", "fast-forward"}
        /\ after.refs # refs
    /\ commitCommand(Repo, M_msg).refs # refs

----------------------------------------------------------------------------
(* Diverged branches on which the user also edits, stages and commits: the  *)
(* commands that conclude a merge stopped by a conflict.                    *)

\* the base holds both files; the sides either change x in two ways, or change
\* one file each
ResolveSides ==
    {<<[p \in Paths |-> IF p = P_x THEN C_C ELSE C_B],
       [p \in Paths |-> IF p = P_x THEN C_bin ELSE C_B]>>,
     <<[p \in Paths |-> IF p = P_x THEN C_C ELSE C_B],
       [p \in Paths |-> IF p = P_x THEN C_B ELSE C_C]>>}

\* the diverged branches, and a repository where `branch -d feat` and `branch feat`
\* have put feat back on the tip of main
ResolveStarts ==
    {Diverged([p \in Paths |-> C_B], sides[1], sides[2]) : sides \in ResolveSides}
    \cup {handleCreateBranch(handleDeleteBranch(
              Diverged([p \in Paths |-> C_B], sides[1], sides[2]), B_feat), B_feat) :
          sides \in {s \in ResolveSides : s[2][P_x] = C_bin}}

InitResolve ==
    \E repo \in ResolveStarts :
        /\ objects = repo.objects
        /\ index = repo.index
        /\ refs = repo.refs
        /\ HEAD = repo.HEAD
        /\ work = repo.work
        /\ result = repo.result

NextResolve ==
    \/ \E b \in Branches : Merge(b, MaxMerged)
    \/ \E b \in Branches : Checkout(b, FALSE)
    \/ WriteFile(P_x, C_B)
    \/ Add(P_x)
    \/ Commit(M_msg, MaxMerged)

SpecResolve == InitResolve /\ [][NextResolve]_vars

\* a working tree with a file a and a directory named __files__
NextFiles ==
    \/ \E p \in {T_a, T_fa}, c \in {C_B, C_C} : WriteFile(p, c)
    \/ \E p \in {T_a, T_fa} : Add(p)
    \/ Commit(M_msg, MaxCommits)

SpecFiles == InitRepo /\ [][NextFiles]_vars

\* the index names, path by path, the blobs of the commit HEAD resolves to
Synced(repo) ==
    \E files_ \in {CommitFiles(getHEAD(repo.HEAD, repo.refs).hash, repo.objects)} :
        files_.ok /\ HashesOf(repo.index) = files_.files

\* checkoutCommand reaches its last step: the target resolves, no staged file differs
\* in the working tree, and the target's tree is read
checkoutSucceeds(repo, target, createBranch) ==
    \E targetHash \in {IF createBranch THEN getHEAD(repo.HEAD, repo.refs).hash
                       ELSE resolveRef(RefPath(target), repo.refs)} :
        /\ targetHash # <<>>
        /\ ~checkForUncommittedChanges(repo.index, repo.work)
        /\ CommitFiles(targetHash, repo.objects).ok

\* commitCommand reaches its last step: the index is not empty and its tree is built
commitSucceeds(repo) ==
    DOMAIN repo.index # {} /\ buildTreeFromIndex(repo.index, repo.objects).ok

\* C37: right after a successful commit, checkout, fast-forward merge or conflict-free
\* three-way merge the index, path by path, names the blobs of the flattened tree of
\* the commit HEAD resolves to.
IndexMatchesHead ==
    /\ commitSucceeds(Repo) => Synced(commitCommand(Repo, M_msg))
    /\ \A b \in Branches, createBranch \in BOOLEAN :
        checkoutSucceeds(Repo, b, createBranch)
        => Synced(checkoutCommand(Repo, b, createBranch))
    /\ \A b \in Branches : \E after \in {mergeCommand(Repo, b)} :
        after.result.outcome \in {"fast-forward", "merged"} => Synced(after)


\* the user concludes a merge stopped on x: writes the resolved x, stages it, commits
concludeMerge(repo) ==
    commitCommand(addSingleFile([repo EXCEPT !.work = Put(@, P_x, C_B)], P_x), M_msg)

\* C38: after a merge of b stopped with MergeConflict, the commit that concludes it
\* has the parents [ours, theirs], the target commit is an ancestor of the new HEAD,
\* and merging b again reports "Already up to date.".
ConcludingCommitRecordsMerge ==
    \A b \in Branches :
        (result.op = "merge" /\ result.outcome = "MergeConflict" /\ result.arg = b
         /\ result.paths = {P_x})
        => \E after \in {concludeMerge(Repo)} :
            \E new \in {getHEAD(after.HEAD, after.refs).hash} :
                /\ new # HeadCommit
                /\ parseCommit(readObject(new, after.objects).content).parents
                   = <<HeadCommit, TargetCommit(b)>>
                /\ Reaches(new, TargetCommit(b), after.objects)
                /\ mergeCommand(after, b).result.outcome = "Already up to date."

----------------------------------------------------------------------------
(* A detached HEAD: refStore's detachHEAD writes a commit's digest into     *)
(* HEAD, and the user goes on editing, staging and committing.              *)

\* refStore.js: detachHEAD; the bytes of HEAD after the call
detachHEAD(commitHash) == commitHash \o <<LF>>

Detach(commitHash) ==
    /\ HEAD' = detachHEAD(commitHash)
    /\ result' = Silent
    /\ UNCHANGED <<objects, index, refs, work>>

NextDetached ==
    \/ \E c \in {C_B, C_C} : WriteFile(P_x, c)
    \/ Add(P_x)
    \/ Commit(M_msg, MaxCommits)
    \/ \E h \in Commits : Detach(h)
    \/ \E b \in Branches : Checkout(b, FALSE)

SpecDetached == InitRepo /\ [][NextDetached]_vars

\* the digest of the commit that commitCommand creates in the repository
newCommitOf(repo, message) ==
    createCommit(buildTreeFromIndex(repo.index, repo.objects).hash,
                 getHEAD(repo.HEAD, repo.refs).hash, message, AUTHOR, Now).hash

\* C39: after every successful commit HEAD resolves to the commit just created, be
\* HEAD symbolic to a branch or detached.
CommitMovesHead ==
    commitSucceeds(Repo)
    => \E after \in {commitCommand(Repo, M_msg)} :
        /\ newCommitOf(Repo, M_msg) \in DOMAIN after.objects
        /\ getHEAD(after.HEAD, after.refs).hash = newCommitOf(Repo, M_msg)

----------------------------------------------------------------------------
(* A name that is a file at one time and a directory at another: the user   *)
(* removes the file b, makes the directory b, and puts the file a in it.    *)

\* the file system takes a file at p when no file stands where p needs a directory
\* and no directory stands at p
WriteUnder(p, c) ==
    /\ \A q \in DOMAIN work : ~StartsWith(p, q \o <<SLASH>>) /\ ~StartsWith(q, p \o <<SLASH>>)
    /\ WriteFile(p, c)

NextClash ==
    \/ \E p \in {T_b, T_ba}, c \in {C_B, C_C} : WriteUnder(p, c)
    \/ \E p \in {T_b, T_ba} : DeleteFile(p)
    \/ \E p \in DOMAIN work : Add(p)
    \/ AddAll
    \/ Commit(M_msg, MaxCommits)

SpecClash == InitRepo /\ [][NextClash]_vars

\* the names of the entries of the root tree that commitCommand builds
rootNames(repo) ==
    LET root == buildTreeFromIndex(repo.index, repo.objects)
        entries == parseTree(readObject(root.hash, root.store).content)
    IN [i \in DOMAIN entries |-> entries[i].name]

\* C40: the index never holds both a path p and a path p/q, and the root tree built
\* from the index has pairwise distinct entry names.
IndexHasNoFileDirClash ==
    /\ \A p \in DOMAIN index, q \in DOMAIN index : ~StartsWith(q, p \o <<SLASH>>)
    /\ DOMAIN index # {}
       => \E names \in {rootNames(Repo)} :
            \A i \in DOMAIN names, j \in DOMAIN names : names[i] = names[j] => i = j
=============================================================================
